---- MODULE Spec2Model ----
(***************************************************************************)
(* State-machine model of the Vultisig demo front-ends.                    *)
(*                                                                         *)
(*   page = "demo"   src/src/secure-wallet.ts  (two simulated devices)     *)
(*   page = "multi"  src/unnamed/part_001      (multi-device page)         *)
(*   page = "fast"   src/vite.config.ts, src/src/sdk.ts (fast-vault page)  *)
(*   page = "sdk"    src/src/sdk.ts on its own (initializeSDK, getSDK)     *)
(*   page = "storage" src/src/secure-wallet.ts, class PrefixedStorage      *)
(*                                                                         *)
(* Every async handler is a task: the synchronous run up to an await is    *)
(* one atomic step (JavaScript runs a handler to its next await without    *)
(* interruption), and the settling of the awaited promise is the next      *)
(* step.  The SDK (@vultisig/sdk) is the environment: its calls resolve or *)
(* reject, and it invokes the callbacks the handlers pass to it.           *)
(***************************************************************************)
EXTENDS Integers, Sequences, FiniteSets, Bags, TLC

VARIABLES
  page,                \* which page is loaded
  track,               \* the display-only fields this specification observes
  activeDevice,        \* demo: state.activeDevice
  dev,                 \* demo: state.deviceA / state.deviceB
  sharedPayload,       \* demo: state.sharedPayload
  sharedPayloadType,   \* demo: state.sharedPayloadType
  pendingTransaction,  \* demo: state.pendingTransaction
  tasks,               \* in-flight async handlers and timers (a bag)
  sessions,            \* SDK/relay: keygen and signing sessions
  nextSid,             \* SDK/relay: next fresh session id
  txCount,             \* number of signing requests prepared so far
  stored,              \* demo: vault ids persisted in each device's storage
  m,                   \* multi-device and fast-vault page: state
  mdom                 \* the same pages: the buttons render() last produced

vars == <<page, track, activeDevice, dev, sharedPayload, sharedPayloadType,
          pendingTransaction, tasks, sessions, nextSid, txCount, stored, m, mdom>>

----------------------------------------------------------------------------
(* Bounds of the model *)

MaxSessions == 2   \* SDK sessions (keygen or signing) started in one run
MaxTx       == 2   \* signing requests prepared in one run
MaxTasks    == 2   \* async handlers and timers in flight at once

----------------------------------------------------------------------------
(* Values *)

DeviceA == "device-a"
DeviceB == "device-b"
DeviceId == {DeviceA, DeviceB}

OtherDevice(d) == IF d = DeviceA THEN DeviceB ELSE DeviceA

NullStr    == "null"      \* null of a string-valued field
NoVault    == 0           \* null of vault / vaultId / solanaAddress
StoredVault == 1          \* a vault already in storage when the page loads
FirstSid   == StoredVault + 1   \* session ids; a vault created by session s has id s
LastSid    == FirstSid + MaxSessions - 1
Sids       == FirstSid..LastSid
NullBal    == -1          \* balance: null
SomeBal    == 0           \* balance: a number (the amount is abstracted)

\* a payload handed between devices: a keygen descriptor or a signing payload
NullPayload      == [k |-> "null", id |-> 0]
QrPayload(s)     == [k |-> "keygen", id |-> s]
SigningPayload(n) == [k |-> "signing", id |-> n]

\* PendingTxRequest; the signing payload carries Date.now(), here the counter
NullTx == [fromDevice |-> "none", toAddress |-> "", amount |-> "", signingPayload |-> NullPayload]

ToAddresses == {"", "addrX"}        \* value of #tx-destination
Amounts     == {"0.001", "0", "-1"} \* value of #tx-amount
AmountsSeen == IF "amount" \in track THEN Amounts ELSE {"0.001"}

\* status lines made from counters
JoinedStatus(n, r) ==
  CASE n = 0 /\ r = 2 -> "0/2 devices joined"
    [] n = 1 /\ r = 2 -> "1/2 devices joined"
    [] n = 2 /\ r = 2 -> "2/2 devices joined"
    [] n = 0 /\ r = 3 -> "0/3 devices joined"
    [] n = 1 /\ r = 3 -> "1/3 devices joined"
    [] n = 2 /\ r = 3 -> "2/3 devices joined"
    [] n = 3 /\ r = 3 -> "3/3 devices joined"
    [] OTHER -> "n/r devices joined"

----------------------------------------------------------------------------
(* Tasks *)

Task(fn, d, pc, sid, tx) == [fn |-> fn, dev |-> d, pc |-> pc, sid |-> sid, tx |-> tx]

Spawn(t)  == tasks (+) SetToBag({t})
Retire(t) == tasks (-) SetToBag({t})
Step(t, u) == (tasks (-) SetToBag({t})) (+) SetToBag({u})
Running   == BagToSet(tasks)
CanSpawn  == BagCardinality(tasks) < MaxTasks

----------------------------------------------------------------------------
(* Two-device demo: state *)

createInitialDeviceState ==
  [ sdk |-> FALSE, initialized |-> FALSE, vault |-> NoVault, vaultId |-> NoVault,
    solanaAddress |-> NoVault, balance |-> NullBal, status |-> "Not initialized",
    error |-> NullStr, loading |-> FALSE, qrPayload |-> NullPayload,
    devicesJoined |-> 0, devicesRequired |-> 2, signingPayload |-> NullPayload ]

\* Fields that are only displayed: no handler and no choice of render() reads
\* them, so leaving one unobserved changes nothing about the others.  A
\* specification observes the display fields in `track`; the rest keep their
\* initial value.
DisplayFields ==
  { "status", "error", "balance", "devicesJoined", "devicesRequired", "qrPayload",
    "signingPayload", "qrCodeDataUrl", "signingInProgress", "txHash", "debugInfo" }

Observed(f) == f \notin DisplayFields \/ f \in track

\* { ...record, ...updates }
Merge(r, u) == [f \in DOMAIN r |-> IF f \in DOMAIN u /\ Observed(f) THEN u[f] ELSE r[f]]

setDeviceState(dv, id, updates) == [dv EXCEPT ![id] = Merge(@, updates)]

NoSession ==
  [ kind |-> "none", phase |-> "none", joined |-> {}, required |-> 0,
    cancelled |-> FALSE, broadcast |-> FALSE ]

NoMultiState == [step |-> "none"]
Web == "web"

\* render() / renderDevicePanel(): the enabled buttons of the page.  Every
\* handler step of this page ends with render(), so the DOM is a function of
\* the current state.
canJoin == sharedPayload # NullPayload /\ sharedPayloadType = "keygen"

\* canApprove without the comparison with the requesting device
canApproveOwnRequest(d) ==
  pendingTransaction # NullTx

canApprove(d) ==
  pendingTransaction # NullTx /\ pendingTransaction.fromDevice # d

renderDevicePanel(d) ==
  LET device == dev[d] IN
  IF ~device.initialized
    THEN IF device.loading THEN {} ELSE {"btn-init"}
  ELSE IF device.vault = NoVault
    THEN IF d = DeviceA
           THEN IF device.loading THEN {} ELSE {"btn-create-vault"}
           ELSE IF canJoin /\ ~device.loading THEN {"btn-join-vault"} ELSE {}
  ELSE (IF canApprove(d) /\ ~device.loading THEN {"btn-approve", "btn-reject"} ELSE {})
       \cup (IF ~canApprove(d) /\ ~device.loading THEN {"btn-send"} ELSE {})
       \cup (IF ~device.loading THEN {"btn-delete"} ELSE {})
       \cup {"btn-refresh"}

Buttons == renderDevicePanel(activeDevice)

Demo == page = "demo"

----------------------------------------------------------------------------
(* Two-device demo: tab switching and SDK initialisation *)

SwitchTab(d) ==
  /\ Demo
  /\ d # activeDevice
  /\ activeDevice' = d
  /\ UNCHANGED <<page, track, m, mdom, dev, sharedPayload, sharedPayloadType, pendingTransaction,
                 tasks, sessions, nextSid, txCount, stored>>

\* initializeDevice up to `await sdk.initialize()`
initializeDeviceStart(d) ==
  [loading |-> TRUE, status |-> "Initializing SDK..."]

initializeDevice(d) ==
  /\ Demo
  /\ d = activeDevice
  /\ "btn-init" \in Buttons
  /\ ~dev[d].initialized
  /\ CanSpawn
  /\ dev' = setDeviceState(dev, d, initializeDeviceStart(d))
  /\ tasks' = Spawn(Task("init", d, "run", 0, NullTx))
  /\ UNCHANGED <<page, track, m, mdom, activeDevice, sharedPayload, sharedPayloadType,
                 pendingTransaction, sessions, nextSid, txCount, stored>>

\* initialize(), listVaults(), address() and fetchBalance() have settled
initializeDeviceDone(d, vault, balance) ==
  [ sdk |-> TRUE, initialized |-> TRUE, vault |-> vault, vaultId |-> vault,
    solanaAddress |-> vault,
    balance |-> IF vault = NoVault THEN NullBal ELSE balance,
    loading |-> FALSE,
    status |-> IF vault # NoVault THEN "Vault ready" ELSE "Ready - No vault" ]

InitializeResolve(t) ==
  /\ Demo
  /\ t \in Running /\ t.fn = "init"
  /\ \E vault \in (IF stored[t.dev] = {} THEN {NoVault} ELSE stored[t.dev]),
        balance \in {NullBal, SomeBal} :
       dev' = setDeviceState(dev, t.dev, initializeDeviceDone(t.dev, vault, balance))
  /\ tasks' = Retire(t)
  /\ UNCHANGED <<page, track, m, mdom, activeDevice, sharedPayload, sharedPayloadType,
                 pendingTransaction, sessions, nextSid, txCount, stored>>

initializeDeviceCatch ==
  [loading |-> FALSE, error |-> "sdk error", status |-> "Initialization failed"]

InitializeReject(t) ==
  /\ Demo
  /\ t \in Running /\ t.fn = "init"
  /\ dev' = setDeviceState(dev, t.dev, initializeDeviceCatch)
  /\ tasks' = Retire(t)
  /\ UNCHANGED <<page, track, m, mdom, activeDevice, sharedPayload, sharedPayloadType,
                 pendingTransaction, sessions, nextSid, txCount, stored>>

----------------------------------------------------------------------------
(* Two-device demo: keygen ceremony (Device A creates, Device B joins) *)

\* the SDK opens a keygen session for the caller
OpenSession(kind, s, who, required) ==
  [sessions EXCEPT ![s] = [kind |-> kind, phase |-> "awaiting", joined |-> {who},
                           required |-> required, cancelled |-> FALSE,
                           broadcast |-> FALSE]]

createSecureVaultStart ==
  [ loading |-> TRUE, status |-> "Creating vault...", error |-> NullStr,
    qrPayload |-> NullPayload, devicesJoined |-> 0 ]

createSecureVault ==
  /\ Demo
  /\ activeDevice = DeviceA
  /\ "btn-create-vault" \in Buttons
  /\ dev[DeviceA].sdk
  /\ CanSpawn
  /\ nextSid <= LastSid
  /\ dev' = setDeviceState(dev, DeviceA, createSecureVaultStart)
  /\ sessions' = OpenSession("keygen", nextSid, DeviceA, 2)
  /\ nextSid' = nextSid + 1
  /\ tasks' = Spawn(Task("create", DeviceA, "sdk0", nextSid, NullTx))
  /\ UNCHANGED <<page, track, m, mdom, activeDevice, sharedPayload, sharedPayloadType,
                 pendingTransaction, txCount, stored>>

KeygenTask(t) == t \in Running /\ t.fn \in {"create", "join"} /\ t.pc \in {"sdk0", "sdk1"}

\* onProgress of createSecureVault / joinSecureVault
onProgress(t) ==
  /\ Demo
  /\ KeygenTask(t)
  /\ dev' = setDeviceState(dev, t.dev, [status |-> "keygen progress"])
  /\ UNCHANGED <<page, track, m, mdom, activeDevice, sharedPayload, sharedPayloadType,
                 pendingTransaction, tasks, sessions, nextSid, txCount, stored>>

\* onQRCodeReady of createSecureVault: the SDK hands out the descriptor once
onQRCodeReady(t) ==
  /\ Demo
  /\ t \in Running /\ t.fn = "create" /\ t.pc = "sdk0"
  /\ sessions[t.sid].phase = "awaiting"
  /\ dev' = setDeviceState(dev, DeviceA, [qrPayload |-> QrPayload(t.sid)])
  /\ sharedPayload' = QrPayload(t.sid)
  /\ sharedPayloadType' = "keygen"
  /\ tasks' = Step(t, [t EXCEPT !.pc = "sdk1"])
  /\ UNCHANGED <<page, track, m, mdom, activeDevice, pendingTransaction, sessions, nextSid,
                 txCount, stored>>

\* onDeviceJoined counting the reporting device on top of the SDK's total
onDeviceJoinedOffByOne(totalJoined, required) ==
  [ devicesJoined |-> totalJoined + 1, devicesRequired |-> required,
    status |-> JoinedStatus(totalJoined, required) ]

onDeviceJoinedUpdate(totalJoined, required) ==
  [ devicesJoined |-> totalJoined, devicesRequired |-> required,
    status |-> JoinedStatus(totalJoined, required) ]

\* onDeviceJoined taking the notification for the end of the keygen
onDeviceJoinedInstalls(t) ==
  /\ Demo
  /\ KeygenTask(t)
  /\ sessions[t.sid].phase \in {"awaiting", "computing"}
  /\ t.dev \in sessions[t.sid].joined
  /\ dev' = setDeviceState(dev, t.dev,
              [ vault |-> t.sid, vaultId |-> t.sid,
                devicesJoined |-> Cardinality(sessions[t.sid].joined),
                devicesRequired |-> sessions[t.sid].required ])
  /\ UNCHANGED <<page, track, m, mdom, activeDevice, sharedPayload, sharedPayloadType,
                 pendingTransaction, tasks, sessions, nextSid, txCount, stored>>

\* onDeviceJoined of createSecureVault / joinSecureVault: the SDK reports the
\* session's participant count
onDeviceJoined(t) ==
  /\ Demo
  /\ KeygenTask(t)
  /\ sessions[t.sid].phase \in {"awaiting", "computing"}
  /\ t.dev \in sessions[t.sid].joined
  /\ dev' = setDeviceState(dev, t.dev,
              onDeviceJoinedUpdate(Cardinality(sessions[t.sid].joined),
                                   sessions[t.sid].required))
  /\ UNCHANGED <<page, track, m, mdom, activeDevice, sharedPayload, sharedPayloadType,
                 pendingTransaction, tasks, sessions, nextSid, txCount, stored>>

\* the SDK joins the caller to the session the descriptor names; a session
\* that is no longer awaiting participants cannot be joined
CanAttach(payload, who) ==
  /\ payload.k = "keygen"
  /\ payload.id \in Sids
  /\ sessions[payload.id].kind = "keygen"
  /\ sessions[payload.id].phase = "awaiting"
  /\ who \notin sessions[payload.id].joined

Attach(s, who) ==
  LET joined == sessions[s].joined \cup {who} IN
  [sessions EXCEPT ![s].joined = joined,
                   ![s].phase = IF Cardinality(joined) >= sessions[s].required
                                  THEN "computing" ELSE "awaiting"]

joinSecureVaultStart ==
  [loading |-> TRUE, status |-> "Joining vault...", error |-> NullStr]

joinSecureVault ==
  /\ Demo
  /\ activeDevice = DeviceB
  /\ "btn-join-vault" \in Buttons
  /\ dev[DeviceB].sdk /\ sharedPayload # NullPayload
  /\ CanSpawn
  /\ dev' = setDeviceState(dev, DeviceB, joinSecureVaultStart)
  /\ IF CanAttach(sharedPayload, DeviceB)
       THEN /\ sessions' = Attach(sharedPayload.id, DeviceB)
            /\ tasks' = Spawn(Task("join", DeviceB, "sdk1", sharedPayload.id, NullTx))
       ELSE /\ sessions' = sessions
            /\ tasks' = Spawn(Task("join", DeviceB, "dead", sharedPayload.id, NullTx))
  /\ UNCHANGED <<page, track, m, mdom, activeDevice, sharedPayload, sharedPayloadType,
                 pendingTransaction, nextSid, txCount, stored>>

\* the relay session finishes the keygen computation
KeygenComplete(s) ==
  /\ s \in Sids
  /\ sessions[s].kind = "keygen" /\ sessions[s].phase = "computing"
  /\ sessions' = [sessions EXCEPT ![s].phase = "done"]
  /\ UNCHANGED <<page, track, m, mdom, activeDevice, dev, sharedPayload, sharedPayloadType,
                 pendingTransaction, tasks, nextSid, txCount, stored>>

\* the vault assigned as soon as the SDK call resolves, before address()
KeygenResolveEager(t) ==
  /\ Demo
  /\ KeygenTask(t)
  /\ sessions[t.sid].phase = "done"
  /\ stored' = [stored EXCEPT ![t.dev] = @ \cup {t.sid}]
  /\ dev' = setDeviceState(dev, t.dev, [vault |-> t.sid, vaultId |-> t.sid])
  /\ tasks' = Step(t, [t EXCEPT !.pc = "address"])
  /\ UNCHANGED <<page, track, m, mdom, activeDevice, sharedPayload, sharedPayloadType,
                 pendingTransaction, sessions, nextSid, txCount>>

\* `await device.sdk.createSecureVault(..)` / joinSecureVault(..) resolves:
\* the SDK has stored this device's share
KeygenResolve(t) ==
  /\ Demo
  /\ KeygenTask(t)
  /\ sessions[t.sid].phase = "done"
  /\ stored' = [stored EXCEPT ![t.dev] = @ \cup {t.sid}]
  /\ tasks' = Step(t, [t EXCEPT !.pc = "address"])
  /\ UNCHANGED <<page, track, m, mdom, activeDevice, dev, sharedPayload, sharedPayloadType,
                 pendingTransaction, sessions, nextSid, txCount>>

createSecureVaultDone(result, balance) ==
  [ vault |-> result, vaultId |-> result, solanaAddress |-> result,
    balance |-> balance, loading |-> FALSE, status |-> "Vault created!",
    qrPayload |-> NullPayload ]

\* address() and fetchBalance() have settled: install the vault
createSecureVaultFinish(t) ==
  /\ Demo
  /\ t \in Running /\ t.fn = "create" /\ t.pc = "address"
  /\ \E balance \in {NullBal, SomeBal} :
       dev' = setDeviceState(dev, DeviceA, createSecureVaultDone(t.sid, balance))
  /\ sharedPayload' = NullPayload
  /\ sharedPayloadType' = NullStr
  /\ tasks' = Retire(t)
  /\ UNCHANGED <<page, track, m, mdom, activeDevice, pendingTransaction, sessions, nextSid,
                 txCount, stored>>

createSecureVaultCatch ==
  [loading |-> FALSE, error |-> "sdk error", status |-> "Vault creation failed"]

\* the SDK call or address() rejects; a participant that drops before the
\* keygen is done fails the session for everybody
FailSession(s) ==
  IF s \in Sids /\ sessions[s].phase \in {"awaiting", "computing"}
    THEN [sessions EXCEPT ![s].phase = "failed"]
    ELSE sessions

KeygenCanReject(t) ==
  \/ t.pc = "dead"
  \/ t.pc = "address"
  \/ t.pc \in {"sdk0", "sdk1"} /\ sessions[t.sid].phase # "done"

createSecureVaultFail(t) ==
  /\ Demo
  /\ t \in Running /\ t.fn = "create"
  /\ KeygenCanReject(t)
  /\ dev' = setDeviceState(dev, DeviceA, createSecureVaultCatch)
  /\ sessions' = FailSession(t.sid)
  /\ tasks' = Retire(t)
  /\ UNCHANGED <<page, track, m, mdom, activeDevice, sharedPayload, sharedPayloadType,
                 pendingTransaction, nextSid, txCount, stored>>

\* the join reporting success without keeping the vault handle
joinSecureVaultDoneNoHandle(result, balance) ==
  [ vault |-> NoVault, vaultId |-> result, solanaAddress |-> result,
    balance |-> balance, loading |-> FALSE, status |-> "Joined vault!" ]

joinSecureVaultDone(result, balance) ==
  [ vault |-> result, vaultId |-> result, solanaAddress |-> result,
    balance |-> balance, loading |-> FALSE, status |-> "Joined vault!" ]

joinSecureVaultFinish(t) ==
  /\ Demo
  /\ t \in Running /\ t.fn = "join" /\ t.pc = "address"
  /\ \E balance \in {NullBal, SomeBal} :
       dev' = setDeviceState(dev, DeviceB, joinSecureVaultDone(t.sid, balance))
  /\ tasks' = Retire(t)
  /\ UNCHANGED <<page, track, m, mdom, activeDevice, sharedPayload, sharedPayloadType,
                 pendingTransaction, sessions, nextSid, txCount, stored>>

joinSecureVaultCatch ==
  [loading |-> FALSE, error |-> "sdk error", status |-> "Join failed"]

joinSecureVaultFail(t) ==
  /\ Demo
  /\ t \in Running /\ t.fn = "join"
  /\ KeygenCanReject(t)
  /\ dev' = setDeviceState(dev, DeviceB, joinSecureVaultCatch)
  /\ sessions' = IF t.pc = "dead" THEN sessions ELSE FailSession(t.sid)
  /\ tasks' = Retire(t)
  /\ UNCHANGED <<page, track, m, mdom, activeDevice, sharedPayload, sharedPayloadType,
                 pendingTransaction, nextSid, txCount, stored>>

----------------------------------------------------------------------------
(* Two-device demo: signing request, approval, rejection *)

\* the rejection of an empty destination also raising the busy flag
initiateTransactionInvalidBusy ==
  [error |-> "Please enter destination address", loading |-> TRUE]

initiateTransactionInvalid ==
  [error |-> "Please enter destination address"]

initiateTransactionStart ==
  [loading |-> TRUE, status |-> "Preparing transaction...", error |-> NullStr]

\* click on "Initiate Transaction" of the active device, up to the first await
initiateTransaction(fromDeviceId, toAddress, amount) ==
  /\ Demo
  /\ fromDeviceId = activeDevice
  /\ "btn-send" \in Buttons
  /\ dev[fromDeviceId].vault # NoVault
  /\ IF toAddress = ""
       THEN /\ dev' = setDeviceState(dev, fromDeviceId, initiateTransactionInvalid)
            /\ UNCHANGED <<tasks, txCount>>
       ELSE /\ CanSpawn
            /\ txCount < MaxTx
            /\ dev' = setDeviceState(dev, fromDeviceId, initiateTransactionStart)
            /\ txCount' = txCount + 1
            /\ tasks' = Spawn(Task("initiate", fromDeviceId, "prepare", 0,
                          [ fromDevice |-> fromDeviceId, toAddress |-> toAddress,
                            amount |-> amount,
                            signingPayload |-> SigningPayload(txCount + 1) ]))
  /\ UNCHANGED <<page, track, m, mdom, activeDevice, sharedPayload, sharedPayloadType,
                 pendingTransaction, sessions, nextSid, stored>>

initiateTransactionDone(signingPayload) ==
  [loading |-> FALSE, status |-> "Waiting for approval...", signingPayload |-> signingPayload]

\* address(), prepareSendTx() and extractMessageHashes() have resolved
initiateTransactionFinish(t) ==
  /\ Demo
  /\ t \in Running /\ t.fn = "initiate"
  /\ pendingTransaction' = t.tx
  /\ sharedPayload' = t.tx.signingPayload
  /\ sharedPayloadType' = "signing"
  /\ dev' = setDeviceState(dev, t.dev, initiateTransactionDone(t.tx.signingPayload))
  /\ tasks' = Retire(t)
  /\ UNCHANGED <<page, track, m, mdom, activeDevice, sessions, nextSid, txCount, stored>>

initiateTransactionCatch ==
  [ loading |-> FALSE, error |-> "sdk error", status |-> "Transaction failed",
    signingPayload |-> NullPayload ]

\* one of them has rejected
initiateTransactionFail(t) ==
  /\ Demo
  /\ t \in Running /\ t.fn = "initiate"
  /\ dev' = setDeviceState(dev, t.dev, initiateTransactionCatch)
  /\ pendingTransaction' = NullTx
  /\ sharedPayload' = NullPayload
  /\ sharedPayloadType' = NullStr
  /\ tasks' = Retire(t)
  /\ UNCHANGED <<page, track, m, mdom, activeDevice, sessions, nextSid, txCount, stored>>

rejectTransactionUpdate(dv) ==
  setDeviceState(
    setDeviceState(dv, DeviceA, [ loading |-> FALSE, status |-> "Transaction rejected",
                                  signingPayload |-> NullPayload ]),
    DeviceB, [loading |-> FALSE, status |-> "Transaction rejected"])

\* rejectTransaction leaving the shared descriptor behind
rejectTransactionKeepsShared ==
  /\ Demo
  /\ "btn-reject" \in Buttons
  /\ pendingTransaction' = NullTx
  /\ dev' = rejectTransactionUpdate(dev)
  /\ UNCHANGED <<page, track, m, mdom, activeDevice, sharedPayload, sharedPayloadType,
                 tasks, sessions, nextSid, txCount, stored>>

rejectTransaction ==
  /\ Demo
  /\ "btn-reject" \in Buttons
  /\ pendingTransaction' = NullTx
  /\ sharedPayload' = NullPayload
  /\ sharedPayloadType' = NullStr
  /\ dev' = rejectTransactionUpdate(dev)
  /\ UNCHANGED <<page, track, m, mdom, activeDevice, tasks, sessions, nextSid, txCount, stored>>

\* both devices show the same phase line
SetBoth(dv, x, ux, y, uy) == setDeviceState(setDeviceState(dv, x, ux), y, uy)

approveTransactionStart(dv, approverDeviceId) ==
  SetBoth(dv, approverDeviceId,
              [ loading |-> TRUE, status |-> "Joining MPC signing session...",
                error |-> NullStr ],
              OtherDevice(approverDeviceId),
              [status |-> "Other device joined! MPC signing in progress..."])

\* click on "Approve & Sign" of the active device, up to the first timer
approveTransaction(approverDeviceId) ==
  /\ Demo
  /\ approverDeviceId = activeDevice
  /\ "btn-approve" \in Buttons
  /\ dev[approverDeviceId].vault # NoVault /\ pendingTransaction # NullTx
  /\ CanSpawn
  /\ dev' = approveTransactionStart(dev, approverDeviceId)
  /\ tasks' = Spawn(Task("approve", approverDeviceId, "joining", 0, pendingTransaction))
  /\ UNCHANGED <<page, track, m, mdom, activeDevice, sharedPayload, sharedPayloadType,
                 pendingTransaction, sessions, nextSid, txCount, stored>>

approveTransactionPhase(dv, approverDeviceId, line) ==
  SetBoth(dv, approverDeviceId, [status |-> line],
              OtherDevice(approverDeviceId), [status |-> line])

\* the approval going from joining straight to combining
approveTransactionSkipsComputing(t) ==
  /\ Demo
  /\ t \in Running /\ t.fn = "approve" /\ t.pc = "joining"
  /\ dev' = approveTransactionPhase(dev, t.dev, "Combining signatures...")
  /\ tasks' = Step(t, [t EXCEPT !.pc = "combining"])
  /\ UNCHANGED <<page, track, m, mdom, activeDevice, sharedPayload, sharedPayloadType,
                 pendingTransaction, sessions, nextSid, txCount, stored>>

\* the first 1500 ms timer has fired
approveTransactionComputing(t) ==
  /\ Demo
  /\ t \in Running /\ t.fn = "approve" /\ t.pc = "joining"
  /\ dev' = approveTransactionPhase(dev, t.dev, "Computing partial signature...")
  /\ tasks' = Step(t, [t EXCEPT !.pc = "computing"])
  /\ UNCHANGED <<page, track, m, mdom, activeDevice, sharedPayload, sharedPayloadType,
                 pendingTransaction, sessions, nextSid, txCount, stored>>

\* the second 1500 ms timer has fired
approveTransactionCombining(t) ==
  /\ Demo
  /\ t \in Running /\ t.fn = "approve" /\ t.pc = "computing"
  /\ dev' = approveTransactionPhase(dev, t.dev, "Combining signatures...")
  /\ tasks' = Step(t, [t EXCEPT !.pc = "combining"])
  /\ UNCHANGED <<page, track, m, mdom, activeDevice, sharedPayload, sharedPayloadType,
                 pendingTransaction, sessions, nextSid, txCount, stored>>

approveTransactionDone(dv, approverDeviceId) ==
  LET signed == SetBoth(dv, approverDeviceId,
                    [loading |-> FALSE, status |-> "Transaction signed & sent!"],
                    OtherDevice(approverDeviceId),
                    [ loading |-> FALSE, status |-> "Tx: mockTxHash",
                      signingPayload |-> NullPayload ])
  IN  SetBoth(signed, DeviceA, [balance |-> SomeBal], DeviceB, [balance |-> SomeBal])

\* the 1000 ms timer has fired: report success, clear the request, schedule the
\* status reset.  Nothing in the try block can throw, so the catch branch of
\* approveTransaction is never taken.
approveTransactionFinish(t) ==
  /\ Demo
  /\ t \in Running /\ t.fn = "approve" /\ t.pc = "combining"
  /\ dev' = approveTransactionDone(dev, t.dev)
  /\ pendingTransaction' = NullTx
  /\ sharedPayload' = NullPayload
  /\ sharedPayloadType' = NullStr
  /\ tasks' = Step(t, Task("timeout", t.dev, "5000ms", 0, t.tx))
  /\ UNCHANGED <<page, track, m, mdom, activeDevice, sessions, nextSid, txCount, stored>>

\* setTimeout(.., 5000) of approveTransaction
approveTransactionTimeout(t) ==
  /\ Demo
  /\ t \in Running /\ t.fn = "timeout"
  /\ dev' = SetBoth(dev, DeviceA, [status |-> "Vault ready"],
                         DeviceB, [status |-> "Vault ready"])
  /\ tasks' = Retire(t)
  /\ UNCHANGED <<page, track, m, mdom, activeDevice, sharedPayload, sharedPayloadType,
                 pendingTransaction, sessions, nextSid, txCount, stored>>

----------------------------------------------------------------------------
(* Two-device demo: delete vault, refresh balance *)

\* deleteVault without the test of line 555: the SDK call is made for whatever
\* device.vault holds
deleteVaultUnguarded(deviceId) ==
  /\ Demo
  /\ dev[deviceId].vault # NoVault => deviceId = activeDevice /\ "btn-delete" \in Buttons
  /\ CanSpawn
  /\ tasks' = Spawn(Task("delete", deviceId, "sdk", dev[deviceId].vault, NullTx))
  /\ UNCHANGED <<page, track, m, mdom, activeDevice, dev, sharedPayload, sharedPayloadType,
                 pendingTransaction, sessions, nextSid, txCount, stored>>

\* deleteVault(deviceId), up to the await.  Line 555 returns before anything
\* else when the device has no SDK or no vault; otherwise the call comes from
\* a click on "Delete Vault from This Device", confirmed by the user.
deleteVault(deviceId) ==
  /\ Demo
  /\ IF ~dev[deviceId].sdk \/ dev[deviceId].vault = NoVault
       THEN UNCHANGED vars
       ELSE /\ deviceId = activeDevice
            /\ "btn-delete" \in Buttons
            /\ CanSpawn
            /\ tasks' = Spawn(Task("delete", deviceId, "sdk", dev[deviceId].vault, NullTx))
            /\ UNCHANGED <<page, track, m, mdom, activeDevice, dev, sharedPayload,
                           sharedPayloadType, pendingTransaction, sessions, nextSid,
                           txCount, stored>>

deleteVaultDone ==
  [ vault |-> NoVault, vaultId |-> NoVault, solanaAddress |-> NoVault,
    balance |-> NullBal, status |-> "Vault deleted" ]

\* the deletion clearing the vault fields of both devices
deleteVaultFinishBoth(t) ==
  /\ Demo
  /\ t \in Running /\ t.fn = "delete"
  /\ stored' = [stored EXCEPT ![t.dev] = @ \ {t.sid}]
  /\ dev' = SetBoth(dev, DeviceA, deleteVaultDone, DeviceB, deleteVaultDone)
  /\ tasks' = Retire(t)
  /\ UNCHANGED <<page, track, m, mdom, activeDevice, sharedPayload, sharedPayloadType,
                 pendingTransaction, sessions, nextSid, txCount>>

deleteVaultFinish(t) ==
  /\ Demo
  /\ t \in Running /\ t.fn = "delete"
  /\ stored' = [stored EXCEPT ![t.dev] = @ \ {t.sid}]
  /\ dev' = setDeviceState(dev, t.dev, deleteVaultDone)
  /\ tasks' = Retire(t)
  /\ UNCHANGED <<page, track, m, mdom, activeDevice, sharedPayload, sharedPayloadType,
                 pendingTransaction, sessions, nextSid, txCount>>

deleteVaultFail(t) ==
  /\ Demo
  /\ t \in Running /\ t.fn = "delete"
  /\ dev' = setDeviceState(dev, t.dev, [error |-> "sdk error"])
  /\ tasks' = Retire(t)
  /\ UNCHANGED <<page, track, m, mdom, activeDevice, sharedPayload, sharedPayloadType,
                 pendingTransaction, sessions, nextSid, txCount, stored>>

\* click on "Refresh"
refreshBalance(deviceId) ==
  /\ Demo
  /\ deviceId = activeDevice
  /\ "btn-refresh" \in Buttons
  /\ dev[deviceId].solanaAddress # NoVault
  /\ CanSpawn
  /\ tasks' = Spawn(Task("refresh", deviceId, "fetch", 0, NullTx))
  /\ UNCHANGED <<page, track, m, mdom, activeDevice, dev, sharedPayload, sharedPayloadType,
                 pendingTransaction, sessions, nextSid, txCount, stored>>

refreshBalanceFinish(t) ==
  /\ Demo
  /\ t \in Running /\ t.fn = "refresh"
  /\ \E balance \in {NullBal, SomeBal} :
       dev' = setDeviceState(dev, t.dev, [balance |-> balance])
  /\ tasks' = Retire(t)
  /\ UNCHANGED <<page, track, m, mdom, activeDevice, sharedPayload, sharedPayloadType,
                 pendingTransaction, sessions, nextSid, txCount, stored>>

----------------------------------------------------------------------------
(* Two-device demo: specification *)

\* init(): render(), then both initializeDevice calls run to their first await
InitDemo(observed) ==
  /\ page = "demo"
  /\ track = observed
  /\ m = NoMultiState
  /\ mdom = {}
  /\ activeDevice = DeviceA
  /\ dev = [d \in DeviceId |-> Merge(createInitialDeviceState, initializeDeviceStart(d))]
  /\ sharedPayload = NullPayload
  /\ sharedPayloadType = NullStr
  /\ pendingTransaction = NullTx
  /\ tasks = SetToBag({Task("init", DeviceA, "run", 0, NullTx),
                       Task("init", DeviceB, "run", 0, NullTx)})
  /\ sessions = [s \in Sids |-> NoSession]
  /\ nextSid = FirstSid
  /\ txCount = 0
  /\ stored \in {[d \in DeviceId |-> {}], [d \in DeviceId |-> {StoredVault}]}

NextDemo ==
  \/ \E d \in DeviceId : SwitchTab(d)
  \/ \E d \in DeviceId : initializeDevice(d)
  \/ \E t \in Running : InitializeResolve(t)
  \/ \E t \in Running : InitializeReject(t)
  \/ createSecureVault
  \/ \E t \in Running : onProgress(t)
  \/ \E t \in Running : onQRCodeReady(t)
  \/ \E t \in Running : onDeviceJoined(t)
  \/ joinSecureVault
  \/ \E s \in Sids : Demo /\ KeygenComplete(s)
  \/ \E t \in Running : KeygenResolve(t)
  \/ \E t \in Running : createSecureVaultFinish(t)
  \/ \E t \in Running : createSecureVaultFail(t)
  \/ \E t \in Running : joinSecureVaultFinish(t)
  \/ \E t \in Running : joinSecureVaultFail(t)
  \/ \E d \in DeviceId, a \in ToAddresses, n \in AmountsSeen : initiateTransaction(d, a, n)
  \/ \E t \in Running : initiateTransactionFinish(t)
  \/ \E t \in Running : initiateTransactionFail(t)
  \/ rejectTransaction
  \/ \E d \in DeviceId : approveTransaction(d)
  \/ \E t \in Running : approveTransactionComputing(t)
  \/ \E t \in Running : approveTransactionCombining(t)
  \/ \E t \in Running : approveTransactionFinish(t)
  \/ \E t \in Running : approveTransactionTimeout(t)
  \/ \E d \in DeviceId : deleteVault(d)
  \/ \E t \in Running : deleteVaultFinish(t)
  \/ \E t \in Running : deleteVaultFail(t)

\* a refresh writes the balance and nothing else
NextDemoBalance ==
  \/ NextDemo
  \/ \E d \in DeviceId : refreshBalance(d)
  \/ \E t \in Running : refreshBalanceFinish(t)

\* the control state alone
SpecDemo == InitDemo({}) /\ [][NextDemo]_vars

\* the control state and the status lines
SpecDemoStatus == InitDemo({"status"}) /\ [][NextDemo]_vars

\* The two-party keygen on its own: device A creates, device B joins, no SDK
\* call of the keygen rejects, and no other operation is started.
NextKeygen ==
  \/ \E d \in DeviceId : SwitchTab(d)
  \/ \E d \in DeviceId : initializeDevice(d)
  \/ \E t \in Running : InitializeResolve(t)
  \/ \E t \in Running : InitializeReject(t)
  \/ createSecureVault
  \/ \E t \in Running : onProgress(t)
  \/ \E t \in Running : onQRCodeReady(t)
  \/ \E t \in Running : onDeviceJoined(t)
  \/ joinSecureVault
  \/ \E s \in Sids : Demo /\ KeygenComplete(s)
  \/ \E t \in Running : KeygenResolve(t)
  \/ \E t \in Running : createSecureVaultFinish(t)
  \/ \E t \in Running : joinSecureVaultFinish(t)

\* A promise that can settle does settle and its continuation runs: the relay
\* finishes a keygen everybody has joined, the SDK calls resolve, and the
\* awaits on address() and fetchBalance() (which never rejects) return.
\* Clicks and progress notifications are under no obligation.
FairKeygen ==
  /\ WF_vars(\E s \in Sids : Demo /\ KeygenComplete(s))
  /\ WF_vars(\E t \in Running : KeygenResolve(t))
  /\ WF_vars(\E t \in Running : createSecureVaultFinish(t))
  /\ WF_vars(\E t \in Running : joinSecureVaultFinish(t))

SpecKeygen == InitDemo({"status"}) /\ [][NextKeygen]_vars /\ FairKeygen

----------------------------------------------------------------------------
(* Multi-device page: state and render *)

Multi == page = "multi"

InitialMultiState ==
  [ step |-> "loading", sdk |-> FALSE, initialized |-> FALSE, vault |-> NoVault,
    vaultId |-> NoVault, solanaAddress |-> NoVault, balance |-> NullBal,
    loading |-> FALSE, error |-> NullStr, status |-> "Initializing...",
    qrCodeDataUrl |-> NullPayload, qrPayload |-> NullPayload, devicesJoined |-> 0,
    devicesRequired |-> 2, signingInProgress |-> FALSE, txHash |-> 0,
    debugInfo |-> 0 ]

\* renderStep(): the enabled buttons of each step
renderStep(st) ==
  CASE st.step = "home"         -> {"btn-create"}
    [] st.step = "create-vault" -> {"btn-cancel-create"}
    [] st.step = "wallet"       -> (IF st.loading THEN {} ELSE {"btn-send", "btn-test-qr"})
                                   \cup {"btn-delete", "btn-refresh"}
    [] st.step = "signing"      -> {"btn-cancel-signing"}
    [] OTHER                    -> {}

DeviceCounts == {2, 3}     \* options of #device-count
SignThreshold == 2         \* participants a signing needs (2-of-2, 2-of-3)

Mobile(k) == IF k = 1 THEN "mobile-1" ELSE "mobile-2"

\* state.vault.<method>(..) throws a TypeError once the vault has been deleted
VaultGone == m.vault = NoVault

----------------------------------------------------------------------------
(* Multi-device page: initializeSDK *)

initializeSDKDone(vault, balance) ==
  IF vault # NoVault
    THEN [ initialized |-> TRUE, vault |-> vault, vaultId |-> vault,
           solanaAddress |-> vault, balance |-> balance, step |-> "wallet",
           status |-> "Wallet ready" ]
    ELSE [initialized |-> TRUE, step |-> "home", status |-> "Ready"]

initializeSDKResolve(t) ==
  /\ Multi
  /\ t \in Running /\ t.fn = "initsdk"
  /\ \E vault \in (IF stored[Web] = {} THEN {NoVault} ELSE stored[Web]),
        balance \in {NullBal, SomeBal} :
       m' = Merge(m, initializeSDKDone(vault, balance))
  /\ mdom' = renderStep(m')
  /\ tasks' = Retire(t)
  /\ UNCHANGED <<page, track, activeDevice, dev, sharedPayload, sharedPayloadType,
                 pendingTransaction, sessions, nextSid, txCount, stored>>

\* what the try block had assigned when the await of `stage` rejected
initializeSDKCatch(stage, vault) ==
  (IF stage = "initialize" THEN [status |-> "Initialization failed"]
   ELSE IF stage = "listVaults" THEN [initialized |-> TRUE]
   ELSE [initialized |-> TRUE, vault |-> vault, vaultId |-> vault])
  @@ [error |-> "sdk error", status |-> "Initialization failed"]

initializeSDKReject(t, stage) ==
  /\ Multi
  /\ t \in Running /\ t.fn = "initsdk"
  /\ stage = "address" => stored[Web] # {}
  /\ \E vault \in (IF stored[Web] = {} THEN {NoVault} ELSE stored[Web]) :
       m' = Merge(m, initializeSDKCatch(stage, vault))
  /\ mdom' = renderStep(m')
  /\ tasks' = Retire(t)
  /\ UNCHANGED <<page, track, activeDevice, dev, sharedPayload, sharedPayloadType,
                 pendingTransaction, sessions, nextSid, txCount, stored>>

----------------------------------------------------------------------------
(* Multi-device page: keygen with the mobile app *)

MultiCreateStart(deviceCount) ==
  [ loading |-> TRUE, step |-> "create-vault", status |-> "Starting vault creation...",
    error |-> NullStr, qrCodeDataUrl |-> NullPayload, qrPayload |-> NullPayload,
    devicesJoined |-> 0, devicesRequired |-> deviceCount ]

\* createSecureVault of the multi-device page, up to the SDK call
MultiCreateSecureVault(deviceCount) ==
  /\ Multi
  /\ "btn-create" \in mdom
  /\ m.sdk
  /\ CanSpawn
  /\ nextSid <= LastSid
  /\ m' = Merge(m, MultiCreateStart(deviceCount))
  /\ mdom' = renderStep(m')
  /\ sessions' = OpenSession("keygen", nextSid, Web, deviceCount)
  /\ nextSid' = nextSid + 1
  /\ tasks' = Spawn(Task("create", Web, "sdk0", nextSid, NullTx))
  /\ UNCHANGED <<page, track, activeDevice, dev, sharedPayload, sharedPayloadType,
                 pendingTransaction, txCount, stored>>

\* a call into the SDK that runs a ceremony and has not settled
CeremonyTask(t) ==
  t \in Running /\ t.fn \in {"create", "send", "test"} /\ t.pc \in {"sdk0", "sdk1"}

\* onProgress of createSecureVault
MultiOnProgress(t) ==
  /\ Multi
  /\ CeremonyTask(t) /\ t.fn = "create"
  /\ m' = Merge(m, [status |-> "keygen progress"])
  /\ mdom' = renderStep(m')
  /\ UNCHANGED <<page, track, activeDevice, dev, sharedPayload, sharedPayloadType,
                 pendingTransaction, tasks, sessions, nextSid, txCount, stored>>

\* onQRCodeReady up to `await generateQRCode(qrPayload)`; no render() yet
MultiOnQRCodeReady(t) ==
  /\ Multi
  /\ CeremonyTask(t) /\ t.pc = "sdk0"
  /\ sessions[t.sid].phase = "awaiting"
  /\ CanSpawn
  /\ m' = Merge(m, [qrPayload |-> [k |-> sessions[t.sid].kind, id |-> t.sid]])
  /\ tasks' = Step(t, [t EXCEPT !.pc = "sdk1"])
                (+) SetToBag({Task("qr", Web, t.fn, t.sid, NullTx)})
  /\ UNCHANGED <<page, track, activeDevice, dev, sharedPayload, sharedPayloadType,
                 pendingTransaction, sessions, nextSid, txCount, stored, mdom>>

QRStatus(fn) ==
  CASE fn = "create" -> "Scan QR code with Vultisig mobile app"
    [] fn = "send"   -> "Scan QR code with Vultisig app to approve"
    [] OTHER         -> "Scan QR with Vultisig app to approve"

onQRCodeReadyDone(t) ==
  IF t.pc = "create"
    THEN [ qrCodeDataUrl |-> [k |-> sessions[t.sid].kind, id |-> t.sid],
           status |-> QRStatus(t.pc) ]
    ELSE [ qrCodeDataUrl |-> [k |-> sessions[t.sid].kind, id |-> t.sid],
           status |-> QRStatus(t.pc), debugInfo |-> t.sid ]

\* generateQRCode has resolved: the rest of onQRCodeReady
MultiQRCodeGenerated(t) ==
  /\ Multi
  /\ t \in Running /\ t.fn = "qr"
  /\ m' = Merge(m, onQRCodeReadyDone(t))
  /\ mdom' = renderStep(m')
  /\ tasks' = Retire(t)
  /\ UNCHANGED <<page, track, activeDevice, dev, sharedPayload, sharedPayloadType,
                 pendingTransaction, sessions, nextSid, txCount, stored>>

\* generateQRCode rethrows: the callback's promise rejects, nothing is assigned
MultiQRCodeFailed(t) ==
  /\ Multi
  /\ t \in Running /\ t.fn = "qr"
  /\ tasks' = Retire(t)
  /\ UNCHANGED <<page, track, activeDevice, dev, sharedPayload, sharedPayloadType,
                 pendingTransaction, sessions, nextSid, txCount, stored, m, mdom>>

JoinedLine(fn, n, r) ==
  CASE fn = "create" -> JoinedStatus(n, r)
    [] fn = "send"   -> "n/r devices joined - signing in progress..."
    [] OTHER         -> "Test: n/r devices joined - computing signatures..."

MultiOnDeviceJoined(t) ==
  /\ Multi
  /\ CeremonyTask(t)
  /\ sessions[t.sid].phase \in {"awaiting", "computing"}
  /\ m' = Merge(m, [ devicesJoined |-> Cardinality(sessions[t.sid].joined),
                     devicesRequired |-> sessions[t.sid].required,
                     status |-> JoinedLine(t.fn, Cardinality(sessions[t.sid].joined),
                                           sessions[t.sid].required) ])
  /\ mdom' = renderStep(m')
  /\ UNCHANGED <<page, track, activeDevice, dev, sharedPayload, sharedPayloadType,
                 pendingTransaction, tasks, sessions, nextSid, txCount, stored>>

\* a mobile device scans the descriptor the SDK handed out and joins
MobileJoin(s) ==
  /\ Multi
  /\ s \in Sids
  /\ sessions[s].phase = "awaiting"
  /\ \E t \in Running : CeremonyTask(t) /\ t.sid = s /\ t.pc = "sdk1"
  /\ sessions' = Attach(s, Mobile(Cardinality(sessions[s].joined)))
  /\ UNCHANGED <<page, track, activeDevice, dev, sharedPayload, sharedPayloadType,
                 pendingTransaction, tasks, nextSid, txCount, stored, m, mdom>>

\* the relay session finishes the signing computation
SigningComplete(s) ==
  /\ Multi
  /\ s \in Sids
  /\ sessions[s].kind = "signing" /\ sessions[s].phase = "computing"
  /\ sessions' = [sessions EXCEPT ![s].phase = "done"]
  /\ UNCHANGED <<page, track, activeDevice, dev, sharedPayload, sharedPayloadType,
                 pendingTransaction, tasks, nextSid, txCount, stored, m, mdom>>

\* `await state.sdk.createSecureVault(..)` resolves: vault and vaultId are
\* assigned, then address() is awaited; no render()
MultiCreateResolve(t) ==
  /\ Multi
  /\ CeremonyTask(t) /\ t.fn = "create"
  /\ sessions[t.sid].phase = "done"
  /\ stored' = [stored EXCEPT ![Web] = @ \cup {t.sid}]
  /\ m' = Merge(m, [vault |-> t.sid, vaultId |-> t.sid])
  /\ tasks' = Step(t, [t EXCEPT !.pc = "address"])
  /\ UNCHANGED <<page, track, activeDevice, dev, sharedPayload, sharedPayloadType,
                 pendingTransaction, sessions, nextSid, txCount, mdom>>

\* address() resolves: solanaAddress is assigned, then fetchBalance is awaited
MultiCreateAddress(t) ==
  /\ Multi
  /\ t \in Running /\ t.fn = "create" /\ t.pc = "address"
  /\ m' = Merge(m, [solanaAddress |-> t.sid])
  /\ tasks' = Step(t, [t EXCEPT !.pc = "balance"])
  /\ UNCHANGED <<page, track, activeDevice, dev, sharedPayload, sharedPayloadType,
                 pendingTransaction, sessions, nextSid, txCount, stored, mdom>>

MultiCreateDone(balance) ==
  [ balance |-> balance, step |-> "wallet", status |-> "Vault created successfully!",
    qrCodeDataUrl |-> NullPayload, qrPayload |-> NullPayload, loading |-> FALSE ]

\* fetchBalance resolves: the rest of the try block, then finally
MultiCreateFinish(t) ==
  /\ Multi
  /\ t \in Running /\ t.fn = "create" /\ t.pc = "balance"
  /\ \E balance \in {NullBal, SomeBal} : m' = Merge(m, MultiCreateDone(balance))
  /\ mdom' = renderStep(m')
  /\ tasks' = Retire(t)
  /\ UNCHANGED <<page, track, activeDevice, dev, sharedPayload, sharedPayloadType,
                 pendingTransaction, sessions, nextSid, txCount, stored>>

MultiCreateCatch ==
  [ error |-> "sdk error", status |-> "Vault creation failed", step |-> "home",
    loading |-> FALSE ]

\* the SDK call or address() rejects: catch, then finally
MultiCreateFail(t) ==
  /\ Multi
  /\ t \in Running /\ t.fn = "create" /\ t.pc \in {"sdk0", "sdk1", "address"}
  /\ KeygenCanReject(t)
  /\ m' = Merge(m, MultiCreateCatch)
  /\ mdom' = renderStep(m')
  /\ sessions' = FailSession(t.sid)
  /\ tasks' = Retire(t)
  /\ UNCHANGED <<page, track, activeDevice, dev, sharedPayload, sharedPayloadType,
                 pendingTransaction, nextSid, txCount, stored>>

\* the user gave up on the ceremonies whose SDK call is still running
CancelSessions(fns) ==
  [s \in Sids |->
     IF \E t \in Running : CeremonyTask(t) /\ t.fn \in fns /\ t.sid = s
       THEN [sessions[s] EXCEPT !.cancelled = TRUE]
       ELSE sessions[s]]

cancelVaultCreationUpdate ==
  [ step |-> "home", status |-> "Ready", loading |-> FALSE,
    qrCodeDataUrl |-> NullPayload, qrPayload |-> NullPayload, error |-> NullStr ]

cancelVaultCreation ==
  /\ Multi
  /\ "btn-cancel-create" \in mdom
  /\ m' = Merge(m, cancelVaultCreationUpdate)
  /\ mdom' = renderStep(m')
  /\ sessions' = CancelSessions({"create"})
  /\ UNCHANGED <<page, track, activeDevice, dev, sharedPayload, sharedPayloadType,
                 pendingTransaction, tasks, nextSid, txCount, stored>>

----------------------------------------------------------------------------
(* Multi-device page: sendTransaction, cancelSigning, testSigningQR *)

SigningStart(line) ==
  [ loading |-> TRUE, signingInProgress |-> TRUE, step |-> "signing", status |-> line,
    error |-> NullStr, qrCodeDataUrl |-> NullPayload, qrPayload |-> NullPayload,
    txHash |-> 0, debugInfo |-> 0 ]

\* sendTransaction up to `await state.vault.address('Solana')`
sendTransaction(toAddress, amount) ==
  /\ Multi
  /\ "btn-send" \in mdom
  /\ m.vault # NoVault /\ m.sdk
  /\ IF toAddress = ""
       THEN /\ m' = Merge(m, [error |-> "Please enter a destination address"])
            /\ UNCHANGED <<tasks, txCount>>
       ELSE /\ CanSpawn
            /\ txCount < MaxTx
            /\ m' = Merge(m, SigningStart("Preparing transaction..."))
            /\ txCount' = txCount + 1
            /\ tasks' = Spawn(Task("send", Web, "address", 0,
                          [ fromDevice |-> Web, toAddress |-> toAddress,
                            amount |-> amount, signingPayload |-> NullPayload ]))
  /\ mdom' = renderStep(m')
  /\ UNCHANGED <<page, track, activeDevice, dev, sharedPayload, sharedPayloadType,
                 pendingTransaction, sessions, nextSid, stored>>

sendTransactionCatch ==
  [error |-> "sdk error", status |-> "Transaction failed"]

sendTransactionFinally ==
  [ loading |-> FALSE, signingInProgress |-> FALSE, step |-> "wallet",
    qrCodeDataUrl |-> NullPayload, qrPayload |-> NullPayload, debugInfo |-> 0 ]

\* catch, then finally, after the try block has assigned `sofar`
SendAbort(t, sofar) ==
  /\ m' = Merge(Merge(Merge(m, sofar), sendTransactionCatch), sendTransactionFinally)
  /\ mdom' = renderStep(m')
  /\ tasks' = Retire(t)

\* address() resolves: status line, render(), then state.vault.prepareSendTx(..)
sendTransactionAddress(t) ==
  /\ Multi
  /\ t \in Running /\ t.fn = "send" /\ t.pc = "address"
  /\ IF VaultGone
       THEN SendAbort(t, [status |-> "Preparing transaction payload..."])
       ELSE /\ m' = Merge(m, [status |-> "Preparing transaction payload..."])
            /\ mdom' = renderStep(m')
            /\ tasks' = Step(t, [t EXCEPT !.pc = "prepare"])
  /\ UNCHANGED <<page, track, activeDevice, dev, sharedPayload, sharedPayloadType,
                 pendingTransaction, sessions, nextSid, txCount, stored>>

\* prepareSendTx and extractMessageHashes resolve: status line, render(), then
\* state.vault.sign(..) opens the signing session
sendTransactionSign(t) ==
  /\ Multi
  /\ t \in Running /\ t.fn = "send" /\ t.pc = "prepare"
  /\ IF VaultGone
       THEN /\ SendAbort(t, [status |-> "Waiting for QR code from SDK..."])
            /\ UNCHANGED <<sessions, nextSid>>
       ELSE /\ nextSid <= LastSid
            /\ m' = Merge(m, [status |-> "Waiting for QR code from SDK..."])
            /\ mdom' = renderStep(m')
            /\ sessions' = OpenSession("signing", nextSid, Web, SignThreshold)
            /\ nextSid' = nextSid + 1
            /\ tasks' = Step(t, [t EXCEPT !.pc = "sdk0", !.sid = nextSid])
  /\ UNCHANGED <<page, track, activeDevice, dev, sharedPayload, sharedPayloadType,
                 pendingTransaction, txCount, stored>>

\* broadcastTx called without waiting for sign(..) to resolve
sendTransactionBroadcastEarly(t) ==
  /\ Multi
  /\ CeremonyTask(t) /\ t.fn = "send"
  /\ m' = Merge(m, [ status |-> "Broadcasting transaction...",
                     qrCodeDataUrl |-> NullPayload ])
  /\ mdom' = renderStep(m')
  /\ sessions' = [sessions EXCEPT ![t.sid].broadcast = TRUE]
  /\ tasks' = Step(t, [t EXCEPT !.pc = "broadcast"])
  /\ UNCHANGED <<page, track, activeDevice, dev, sharedPayload, sharedPayloadType,
                 pendingTransaction, nextSid, txCount, stored>>

\* sign(..) resolves with the signature: status line, render(), then
\* state.vault.broadcastTx(..) hands the signature to the network
sendTransactionBroadcast(t) ==
  /\ Multi
  /\ CeremonyTask(t) /\ t.fn = "send"
  /\ sessions[t.sid].phase = "done"
  /\ IF VaultGone
       THEN /\ SendAbort(t, [ status |-> "Broadcasting transaction...",
                              qrCodeDataUrl |-> NullPayload ])
            /\ UNCHANGED sessions
       ELSE /\ m' = Merge(m, [ status |-> "Broadcasting transaction...",
                               qrCodeDataUrl |-> NullPayload ])
            /\ mdom' = renderStep(m')
            /\ sessions' = [sessions EXCEPT ![t.sid].broadcast = TRUE]
            /\ tasks' = Step(t, [t EXCEPT !.pc = "broadcast"])
  /\ UNCHANGED <<page, track, activeDevice, dev, sharedPayload, sharedPayloadType,
                 pendingTransaction, nextSid, txCount, stored>>

\* broadcastTx resolves: txHash and status are assigned, fetchBalance awaited
sendTransactionSent(t) ==
  /\ Multi
  /\ t \in Running /\ t.fn = "send" /\ t.pc = "broadcast"
  /\ m' = Merge(m, [txHash |-> t.sid, status |-> "Transaction sent!"])
  /\ tasks' = Step(t, [t EXCEPT !.pc = "balance"])
  /\ UNCHANGED <<page, track, activeDevice, dev, sharedPayload, sharedPayloadType,
                 pendingTransaction, sessions, nextSid, txCount, stored, mdom>>

\* fetchBalance resolves: balance is assigned, then finally
sendTransactionFinish(t) ==
  /\ Multi
  /\ t \in Running /\ t.fn = "send" /\ t.pc = "balance"
  /\ \E balance \in {NullBal, SomeBal} :
       m' = Merge(Merge(m, [balance |-> balance]), sendTransactionFinally)
  /\ mdom' = renderStep(m')
  /\ tasks' = Retire(t)
  /\ UNCHANGED <<page, track, activeDevice, dev, sharedPayload, sharedPayloadType,
                 pendingTransaction, sessions, nextSid, txCount, stored>>

\* an awaited SDK call of the pipeline rejects
SigningCanReject(t) ==
  \/ t.pc \in {"address", "prepare", "broadcast"}
  \/ t.pc \in {"sdk0", "sdk1"} /\ sessions[t.sid].phase # "done"

sendTransactionFail(t) ==
  /\ Multi
  /\ t \in Running /\ t.fn = "send"
  /\ SigningCanReject(t)
  /\ SendAbort(t, [error |-> m.error])
  /\ sessions' = FailSession(t.sid)
  /\ UNCHANGED <<page, track, activeDevice, dev, sharedPayload, sharedPayloadType,
                 pendingTransaction, nextSid, txCount, stored>>

cancelSigningUpdate ==
  [ step |-> "wallet", status |-> "Wallet ready", loading |-> FALSE,
    signingInProgress |-> FALSE, qrCodeDataUrl |-> NullPayload,
    qrPayload |-> NullPayload, debugInfo |-> 0 ]

cancelSigning ==
  /\ Multi
  /\ "btn-cancel-signing" \in mdom
  /\ m' = Merge(m, cancelSigningUpdate)
  /\ mdom' = renderStep(m')
  /\ sessions' = CancelSessions({"send", "test"})
  /\ UNCHANGED <<page, track, activeDevice, dev, sharedPayload, sharedPayloadType,
                 pendingTransaction, tasks, nextSid, txCount, stored>>

\* testSigningQR up to `await state.vault.address('Solana')`
testSigningQR ==
  /\ Multi
  /\ "btn-test-qr" \in mdom
  /\ m.vault # NoVault /\ m.sdk
  /\ CanSpawn
  /\ txCount < MaxTx
  /\ m' = Merge(m, SigningStart("Preparing test signing session..."))
  /\ mdom' = renderStep(m')
  /\ txCount' = txCount + 1
  /\ tasks' = Spawn(Task("test", Web, "address", 0, NullTx))
  /\ UNCHANGED <<page, track, activeDevice, dev, sharedPayload, sharedPayloadType,
                 pendingTransaction, sessions, nextSid, stored>>

testSigningQRCatch ==
  [ error |-> "sdk error", status |-> "Test signing failed", loading |-> FALSE,
    signingInProgress |-> FALSE, step |-> "wallet" ]

TestAbort(t, sofar) ==
  /\ m' = Merge(Merge(m, sofar), testSigningQRCatch)
  /\ mdom' = renderStep(m')
  /\ tasks' = Retire(t)

testSigningQRAddress(t) ==
  /\ Multi
  /\ t \in Running /\ t.fn = "test" /\ t.pc = "address"
  /\ IF VaultGone
       THEN TestAbort(t, [status |-> "Preparing test transaction payload..."])
       ELSE /\ m' = Merge(m, [status |-> "Preparing test transaction payload..."])
            /\ mdom' = renderStep(m')
            /\ tasks' = Step(t, [t EXCEPT !.pc = "prepare"])
  /\ UNCHANGED <<page, track, activeDevice, dev, sharedPayload, sharedPayloadType,
                 pendingTransaction, sessions, nextSid, txCount, stored>>

testSigningQRSign(t) ==
  /\ Multi
  /\ t \in Running /\ t.fn = "test" /\ t.pc = "prepare"
  /\ IF VaultGone
       THEN /\ TestAbort(t, [status |-> "Starting SDK signing flow - waiting for QR..."])
            /\ UNCHANGED <<sessions, nextSid>>
       ELSE /\ nextSid <= LastSid
            /\ m' = Merge(m, [status |-> "Starting SDK signing flow - waiting for QR..."])
            /\ mdom' = renderStep(m')
            /\ sessions' = OpenSession("signing", nextSid, Web, SignThreshold)
            /\ nextSid' = nextSid + 1
            /\ tasks' = Step(t, [t EXCEPT !.pc = "sdk0", !.sid = nextSid])
  /\ UNCHANGED <<page, track, activeDevice, dev, sharedPayload, sharedPayloadType,
                 pendingTransaction, txCount, stored>>

testSigningQRDone ==
  [status |-> "Test signing successful! (not broadcasting)", loading |-> FALSE]

\* the test handing its signature to broadcastTx and recording the hash
testSigningQRBroadcasts(t) ==
  /\ Multi
  /\ CeremonyTask(t) /\ t.fn = "test"
  /\ sessions[t.sid].phase = "done"
  /\ m' = Merge(Merge(m, testSigningQRDone), [txHash |-> t.sid])
  /\ mdom' = renderStep(m')
  /\ sessions' = [sessions EXCEPT ![t.sid].broadcast = TRUE]
  /\ tasks' = Retire(t)
  /\ UNCHANGED <<page, track, activeDevice, dev, sharedPayload, sharedPayloadType,
                 pendingTransaction, nextSid, txCount, stored>>

\* sign(..) resolves: nothing is broadcast
testSigningQRFinish(t) ==
  /\ Multi
  /\ CeremonyTask(t) /\ t.fn = "test"
  /\ sessions[t.sid].phase = "done"
  /\ m' = Merge(m, testSigningQRDone)
  /\ mdom' = renderStep(m')
  /\ tasks' = Retire(t)
  /\ UNCHANGED <<page, track, activeDevice, dev, sharedPayload, sharedPayloadType,
                 pendingTransaction, sessions, nextSid, txCount, stored>>

testSigningQRFail(t) ==
  /\ Multi
  /\ t \in Running /\ t.fn = "test"
  /\ SigningCanReject(t)
  /\ TestAbort(t, [error |-> m.error])
  /\ sessions' = FailSession(t.sid)
  /\ UNCHANGED <<page, track, activeDevice, dev, sharedPayload, sharedPayloadType,
                 pendingTransaction, nextSid, txCount, stored>>

----------------------------------------------------------------------------
(* Multi-device page: delete vault, refresh balance *)

\* deleteVault(), up to the await.  Line 469 returns before anything else when
\* the page has no SDK or no vault; otherwise the call comes from a click on
\* "Delete Vault", confirmed by the user.
MultiDeleteVault ==
  /\ Multi
  /\ IF ~m.sdk \/ m.vault = NoVault
       THEN UNCHANGED vars
       ELSE /\ "btn-delete" \in mdom
            /\ CanSpawn
            /\ tasks' = Spawn(Task("delete", Web, "sdk", m.vault, NullTx))
            /\ UNCHANGED <<page, track, activeDevice, dev, sharedPayload,
                           sharedPayloadType, pendingTransaction, sessions, nextSid,
                           txCount, stored, m, mdom>>

MultiDeleteVaultDone ==
  [ vault |-> NoVault, vaultId |-> NoVault, solanaAddress |-> NoVault,
    balance |-> NullBal, step |-> "home", status |-> "Vault deleted" ]

MultiDeleteVaultFinish(t) ==
  /\ Multi
  /\ t \in Running /\ t.fn = "delete"
  /\ stored' = [stored EXCEPT ![Web] = @ \ {t.sid}]
  /\ m' = Merge(m, MultiDeleteVaultDone)
  /\ mdom' = renderStep(m')
  /\ tasks' = Retire(t)
  /\ UNCHANGED <<page, track, activeDevice, dev, sharedPayload, sharedPayloadType,
                 pendingTransaction, sessions, nextSid, txCount>>

MultiDeleteVaultFail(t) ==
  /\ Multi
  /\ t \in Running /\ t.fn = "delete"
  /\ m' = Merge(m, [error |-> "sdk error"])
  /\ mdom' = renderStep(m')
  /\ tasks' = Retire(t)
  /\ UNCHANGED <<page, track, activeDevice, dev, sharedPayload, sharedPayloadType,
                 pendingTransaction, sessions, nextSid, txCount, stored>>

MultiRefreshBalance ==
  /\ Multi
  /\ "btn-refresh" \in mdom
  /\ m.solanaAddress # NoVault
  /\ CanSpawn
  /\ tasks' = Spawn(Task("refresh", Web, "fetch", 0, NullTx))
  /\ UNCHANGED <<page, track, activeDevice, dev, sharedPayload, sharedPayloadType,
                 pendingTransaction, sessions, nextSid, txCount, stored, m, mdom>>

MultiRefreshBalanceFinish(t) ==
  /\ Multi
  /\ t \in Running /\ t.fn = "refresh"
  /\ \E balance \in {NullBal, SomeBal} : m' = Merge(m, [balance |-> balance])
  /\ mdom' = renderStep(m')
  /\ tasks' = Retire(t)
  /\ UNCHANGED <<page, track, activeDevice, dev, sharedPayload, sharedPayloadType,
                 pendingTransaction, sessions, nextSid, txCount, stored>>

----------------------------------------------------------------------------
(* Multi-device page: specification *)

\* init(): render(), then initializeSDK runs to `await state.sdk.initialize()`
InitMulti(observed) ==
  /\ page = "multi"
  /\ track = observed
  /\ m = Merge(InitialMultiState, [sdk |-> TRUE, status |-> "Initializing SDK..."])
  /\ mdom = {}
  /\ tasks = SetToBag({Task("initsdk", Web, "run", 0, NullTx)})
  /\ sessions = [s \in Sids |-> NoSession]
  /\ nextSid = FirstSid
  /\ txCount = 0
  /\ stored \in {[d \in {Web} |-> {}], [d \in {Web} |-> {StoredVault}]}
  /\ activeDevice = DeviceA
  /\ dev = [d \in DeviceId |-> createInitialDeviceState]
  /\ sharedPayload = NullPayload
  /\ sharedPayloadType = NullStr
  /\ pendingTransaction = NullTx

NextMulti ==
  \/ \E t \in Running : initializeSDKResolve(t)
  \/ \E t \in Running, stage \in {"initialize", "listVaults", "address"} :
       initializeSDKReject(t, stage)
  \/ \E n \in DeviceCounts : MultiCreateSecureVault(n)
  \/ \E t \in Running : MultiOnProgress(t)
  \/ \E t \in Running : MultiOnQRCodeReady(t)
  \/ \E t \in Running : MultiQRCodeGenerated(t)
  \/ \E t \in Running : MultiQRCodeFailed(t)
  \/ \E t \in Running : MultiOnDeviceJoined(t)
  \/ \E s \in Sids : MobileJoin(s)
  \/ \E s \in Sids : Multi /\ KeygenComplete(s)
  \/ \E s \in Sids : SigningComplete(s)
  \/ \E t \in Running : MultiCreateResolve(t)
  \/ \E t \in Running : MultiCreateAddress(t)
  \/ \E t \in Running : MultiCreateFinish(t)
  \/ \E t \in Running : MultiCreateFail(t)
  \/ cancelVaultCreation
  \/ \E a \in ToAddresses, n \in AmountsSeen : sendTransaction(a, n)
  \/ \E t \in Running : sendTransactionAddress(t)
  \/ \E t \in Running : sendTransactionSign(t)
  \/ \E t \in Running : sendTransactionBroadcast(t)
  \/ \E t \in Running : sendTransactionSent(t)
  \/ \E t \in Running : sendTransactionFinish(t)
  \/ \E t \in Running : sendTransactionFail(t)
  \/ cancelSigning
  \/ testSigningQR
  \/ \E t \in Running : testSigningQRAddress(t)
  \/ \E t \in Running : testSigningQRSign(t)
  \/ \E t \in Running : testSigningQRFinish(t)
  \/ \E t \in Running : testSigningQRFail(t)
  \/ MultiDeleteVault
  \/ \E t \in Running : MultiDeleteVaultFinish(t)
  \/ \E t \in Running : MultiDeleteVaultFail(t)

NextMultiBalance ==
  \/ NextMulti
  \/ MultiRefreshBalance
  \/ \E t \in Running : MultiRefreshBalanceFinish(t)

\* the control state alone
SpecMulti == InitMulti({}) /\ [][NextMulti]_vars

\* the control state and the signingInProgress flag
SpecBusy == InitMulti({"signingInProgress"}) /\ [][NextMulti]_vars

----------------------------------------------------------------------------
(* Fast-vault page (src/vite.config.ts from line 244, src/src/sdk.ts): state *)

Fast == page = "fast"

\* the variables of the two-device demo, which the other pages leave alone
demoVars == <<activeDevice, dev, sharedPayload, sharedPayloadType, pendingTransaction>>

FileVault == LastSid + 1      \* the vault a .vult backup file holds
Server == "vultiserver"       \* the second party of a fast vault

\* `state` of the page, and sdkInstance of sdk.ts
InitialFastState ==
  [ step |-> "loading", vaultId |-> NoVault, vault |-> NoVault, existingVaults |-> {},
    solanaAddress |-> NoVault, balance |-> NullBal, loading |-> FALSE,
    error |-> NullStr, status |-> "Initializing SDK...", txHash |-> 0,
    sdkInstance |-> "null" ]

\* renderStep() of the fast-vault page: the buttons a click can reach
\* renderStep leaving the submit button of the create form enabled while
\* state.loading is set
FastRenderStepSubmitEnabled(st) ==
  CASE st.step = "home"   -> {"btn-create", "btn-import"}
                             \cup (IF st.existingVaults # {} /\ ~st.loading
                                     THEN {"vault-item"} ELSE {})
    [] st.step = "create" -> {"btn-back", "btn-submit-create"}
    [] st.step = "verify" -> IF st.loading THEN {} ELSE {"btn-verify"}
    [] st.step = "import" -> {"btn-back"}
                             \cup (IF st.loading THEN {} ELSE {"btn-submit-import"})
    [] st.step = "wallet" -> {"btn-home", "btn-refresh"}
                             \cup (IF st.loading THEN {} ELSE {"btn-send"})
    [] OTHER              -> {}

FastRenderStep(st) ==
  CASE st.step = "home"   -> {"btn-create", "btn-import"}
                             \cup (IF st.existingVaults # {} /\ ~st.loading
                                     THEN {"vault-item"} ELSE {})
    [] st.step = "create" -> {"btn-back"}
                             \cup (IF st.loading THEN {} ELSE {"btn-submit-create"})
    [] st.step = "verify" -> IF st.loading THEN {} ELSE {"btn-verify"}
    [] st.step = "import" -> {"btn-back"}
                             \cup (IF st.loading THEN {} ELSE {"btn-submit-import"})
    [] st.step = "wallet" -> {"btn-home", "btn-refresh"}
                             \cup (IF st.loading THEN {} ELSE {"btn-send"})
    [] OTHER              -> {}

\* loadVaults(): listVaults() resolves with the stored vaults, or rejects and
\* the list is left as it was
loadVaults == {stored[Web], m.existingVaults}

----------------------------------------------------------------------------
(* Fast-vault page: init, navigation *)

\* `await sdkInstance.initialize()` of initializeSDK resolves; loadVaults next
FastInitInitialized(t) ==
  /\ Fast
  /\ t \in Running /\ t.fn = "init" /\ t.pc = "initialize"
  /\ m' = [m EXCEPT !.sdkInstance = "initialized"]
  /\ tasks' = Step(t, [t EXCEPT !.pc = "loadVaults"])
  /\ UNCHANGED <<page, track, demoVars, sessions, nextSid, txCount, stored, mdom>>

\* loadVaults has settled: the rest of init()
FastInitDone(t) ==
  /\ Fast
  /\ t \in Running /\ t.fn = "init" /\ t.pc = "loadVaults"
  /\ \E vaults \in loadVaults :
       m' = Merge(m, [ existingVaults |-> vaults, step |-> "home",
                       status |-> "Welcome to Vultisig" ])
  /\ mdom' = FastRenderStep(m')
  /\ tasks' = Retire(t)
  /\ UNCHANGED <<page, track, demoVars, sessions, nextSid, txCount, stored>>

\* initialize() rejects: the catch branch of init()
FastInitFail(t) ==
  /\ Fast
  /\ t \in Running /\ t.fn = "init" /\ t.pc = "initialize"
  /\ m' = Merge(m, [ error |-> "SDK initialization failed",
                     status |-> "Initialization failed" ])
  /\ mdom' = FastRenderStep(m')
  /\ tasks' = Retire(t)
  /\ UNCHANGED <<page, track, demoVars, sessions, nextSid, txCount, stored>>

\* click on "Create New" / "Import .vult"
FastGoTo(button, step) ==
  /\ Fast
  /\ button \in mdom
  /\ m' = Merge(m, [step |-> step, error |-> NullStr])
  /\ mdom' = FastRenderStep(m')
  /\ UNCHANGED <<page, track, demoVars, tasks, sessions, nextSid, txCount, stored>>

\* click on "Back"
FastBack ==
  /\ Fast
  /\ "btn-back" \in mdom
  /\ m' = Merge(m, [step |-> "home", error |-> NullStr])
  /\ mdom' = FastRenderStep(m')
  /\ UNCHANGED <<page, track, demoVars, tasks, sessions, nextSid, txCount, stored>>

FastHomeReset ==
  [ step |-> "home", vault |-> NoVault, vaultId |-> NoVault, solanaAddress |-> NoVault,
    balance |-> NullBal, error |-> NullStr, txHash |-> 0,
    status |-> "Welcome to Vultisig" ]

\* click on "Back to Vaults", up to `await loadVaults()`; no render() yet
FastHome ==
  /\ Fast
  /\ "btn-home" \in mdom
  /\ CanSpawn
  /\ m' = Merge(m, FastHomeReset)
  /\ tasks' = Spawn(Task("home", Web, "loadVaults", 0, NullTx))
  /\ UNCHANGED <<page, track, demoVars, sessions, nextSid, txCount, stored, mdom>>

FastHomeDone(t) ==
  /\ Fast
  /\ t \in Running /\ t.fn = "home"
  /\ \E vaults \in loadVaults : m' = Merge(m, [existingVaults |-> vaults])
  /\ mdom' = FastRenderStep(m')
  /\ tasks' = Retire(t)
  /\ UNCHANGED <<page, track, demoVars, sessions, nextSid, txCount, stored>>

\* click on "Refresh"
FastRefresh ==
  /\ Fast
  /\ "btn-refresh" \in mdom
  /\ m.solanaAddress # NoVault
  /\ CanSpawn
  /\ tasks' = Spawn(Task("refresh", Web, "fetch", 0, NullTx))
  /\ UNCHANGED <<page, track, demoVars, sessions, nextSid, txCount, stored, m, mdom>>

FastRefreshDone(t) ==
  /\ Fast
  /\ t \in Running /\ t.fn = "refresh"
  /\ \E balance \in {NullBal, SomeBal} : m' = Merge(m, [balance |-> balance])
  /\ mdom' = FastRenderStep(m')
  /\ tasks' = Retire(t)
  /\ UNCHANGED <<page, track, demoVars, sessions, nextSid, txCount, stored>>

----------------------------------------------------------------------------
(* Fast-vault page: handleCreate, handleVerify *)

FastStart(line) == [loading |-> TRUE, error |-> NullStr, status |-> line]

\* click on "Create Fast Vault", up to `await createFastVault(..)`
handleCreate(email, password) ==
  /\ Fast
  /\ "btn-submit-create" \in mdom
  /\ IF email = "" \/ password = ""
       THEN /\ m' = Merge(m, [error |-> "Please enter email and password"])
            /\ UNCHANGED tasks
       ELSE /\ CanSpawn
            /\ m' = Merge(m, FastStart("Creating Fast Vault..."))
            /\ tasks' = Spawn(Task("fcreate", Web, "sdk", 0, NullTx))
  /\ mdom' = FastRenderStep(m')
  /\ UNCHANGED <<page, track, demoVars, sessions, nextSid, txCount, stored>>

\* createFastVault resolves with the id of the vault awaiting verification
handleCreateDone(t) ==
  /\ Fast
  /\ t \in Running /\ t.fn = "fcreate"
  /\ nextSid <= LastSid
  /\ sessions' = [sessions EXCEPT ![nextSid] =
                    [ kind |-> "fast", phase |-> "unverified", joined |-> {Web, Server},
                      required |-> 2, cancelled |-> FALSE, broadcast |-> FALSE ]]
  /\ nextSid' = nextSid + 1
  /\ m' = Merge(m, [ vaultId |-> nextSid, step |-> "verify", loading |-> FALSE,
                     status |-> "Check your email for verification code" ])
  /\ mdom' = FastRenderStep(m')
  /\ tasks' = Retire(t)
  /\ UNCHANGED <<page, track, demoVars, txCount, stored>>

handleCreateFail(t) ==
  /\ Fast
  /\ t \in Running /\ t.fn = "fcreate"
  /\ m' = Merge(m, [ error |-> "sdk error", status |-> "Error creating vault",
                     loading |-> FALSE ])
  /\ mdom' = FastRenderStep(m')
  /\ tasks' = Retire(t)
  /\ UNCHANGED <<page, track, demoVars, sessions, nextSid, txCount, stored>>

\* click on "Verify & Continue", up to `await verifyVault(state.vaultId, code)`
handleVerify(code) ==
  /\ Fast
  /\ "btn-verify" \in mdom
  /\ IF code = "" \/ m.vaultId = NoVault
       THEN /\ m' = Merge(m, [error |-> "Please enter verification code"])
            /\ UNCHANGED tasks
       ELSE /\ CanSpawn
            /\ m' = Merge(m, FastStart("Verifying vault..."))
            /\ tasks' = Spawn(Task("fverify", Web, "verify", m.vaultId, NullTx))
  /\ mdom' = FastRenderStep(m')
  /\ UNCHANGED <<page, track, demoVars, sessions, nextSid, txCount, stored>>

\* the vault is opened: state.vault (and, for unlock and import, state.vaultId)
\* is assigned, the status line is rendered, then getAddress is awaited
FastOpened(t, updates) ==
  /\ m' = Merge(Merge(m, updates), [status |-> "Getting Solana address..."])
  /\ mdom' = FastRenderStep(m')
  /\ tasks' = Step(t, [t EXCEPT !.pc = "address"])

\* verifyVault resolves: the code was the one sent by e-mail
handleVerifyVerified(t) ==
  /\ Fast
  /\ t \in Running /\ t.fn = "fverify" /\ t.pc = "verify"
  /\ sessions[t.sid].kind = "fast"
  /\ sessions' = [sessions EXCEPT ![t.sid].phase = "verified"]
  /\ stored' = [stored EXCEPT ![Web] = @ \cup {t.sid}]
  /\ FastOpened(t, [vault |-> t.sid])
  /\ UNCHANGED <<page, track, demoVars, nextSid, txCount>>

\* getAddress resolves; fetchBalance is awaited
FastAddress(t) ==
  /\ Fast
  /\ t \in Running /\ t.fn \in {"fverify", "funlock", "fimport"} /\ t.pc = "address"
  /\ m' = Merge(m, [solanaAddress |-> t.sid])
  /\ tasks' = Step(t, [t EXCEPT !.pc = "balance"])
  /\ UNCHANGED <<page, track, demoVars, sessions, nextSid, txCount, stored, mdom>>

FastWallet(line, balance) ==
  [balance |-> balance, status |-> line, step |-> "wallet", loading |-> FALSE]

\* fetchBalance and loadVaults have settled: the rest of the try block, finally
handleVerifyFinish(t) ==
  /\ Fast
  /\ t \in Running /\ t.fn = "fverify" /\ t.pc = "balance"
  /\ \E balance \in {NullBal, SomeBal}, vaults \in loadVaults :
       m' = Merge(Merge(m, [existingVaults |-> vaults]),
                  FastWallet("Wallet ready!", balance))
  /\ mdom' = FastRenderStep(m')
  /\ tasks' = Retire(t)
  /\ UNCHANGED <<page, track, demoVars, sessions, nextSid, txCount, stored>>

FastCatch(message, line) == [error |-> message, status |-> line, loading |-> FALSE]

\* verifyVault (wrong code, server error) or getAddress rejects
handleVerifyFail(t) ==
  /\ Fast
  /\ t \in Running /\ t.fn = "fverify" /\ t.pc \in {"verify", "address"}
  /\ m' = Merge(m, FastCatch("sdk error", "Error verifying vault"))
  /\ mdom' = FastRenderStep(m')
  /\ tasks' = Retire(t)
  /\ UNCHANGED <<page, track, demoVars, sessions, nextSid, txCount, stored>>

----------------------------------------------------------------------------
(* Fast-vault page: handleUnlock and the password provider *)

\* click on a vault of the list, up to `await getVaultById(vaultId)`
handleUnlock(vaultId) ==
  /\ Fast
  /\ "vault-item" \in mdom
  /\ vaultId \in m.existingVaults
  /\ CanSpawn
  /\ m' = Merge(m, FastStart("Unlocking vault..."))
  /\ mdom' = FastRenderStep(m')
  /\ tasks' = Spawn(Task("funlock", Web, "getVault", vaultId, NullTx))
  /\ UNCHANGED <<page, track, demoVars, sessions, nextSid, txCount, stored>>

Passwords == {"", "secret"}      \* what window.prompt returns ("" also for Cancel)

\* onPasswordRequired of sdk.ts: the SDK asks for the password once; an empty
\* or dismissed prompt throws, and the getVaultById that asked rejects with it
onPasswordRequired(t, password) ==
  /\ Fast
  /\ t \in Running /\ t.fn = "funlock" /\ t.pc = "getVault"
  /\ tasks' = Step(t, [t EXCEPT !.pc = IF password = "" THEN "denied" ELSE "password"])
  /\ UNCHANGED <<page, track, demoVars, sessions, nextSid, txCount, stored, m, mdom>>

\* getVaultById resolves: the password was cached, or the one given is right
handleUnlockOpened(t) ==
  /\ Fast
  /\ t \in Running /\ t.fn = "funlock" /\ t.pc \in {"getVault", "password"}
  /\ t.sid \in stored[Web]
  /\ FastOpened(t, [vault |-> t.sid, vaultId |-> t.sid])
  /\ UNCHANGED <<page, track, demoVars, sessions, nextSid, txCount, stored>>

handleUnlockFinish(t) ==
  /\ Fast
  /\ t \in Running /\ t.fn = "funlock" /\ t.pc = "balance"
  /\ \E balance \in {NullBal, SomeBal} :
       m' = Merge(m, FastWallet("Wallet ready!", balance))
  /\ mdom' = FastRenderStep(m')
  /\ tasks' = Retire(t)
  /\ UNCHANGED <<page, track, demoVars, sessions, nextSid, txCount, stored>>

\* the message of the error getVaultById or getAddress rejects with
UnlockError(pc) == IF pc = "denied" THEN "Password required" ELSE "sdk error"

\* handleUnlock asking for the password again when the prompt was dismissed
handleUnlockFailRetries(t) ==
  /\ Fast
  /\ t \in Running /\ t.fn = "funlock"
  /\ t.pc \in {"getVault", "password", "denied", "address"}
  /\ IF t.pc = "denied"
       THEN /\ tasks' = Step(t, [t EXCEPT !.pc = "getVault"])
            /\ UNCHANGED <<m, mdom>>
       ELSE /\ m' = Merge(m, FastCatch(UnlockError(t.pc), "Error unlocking vault"))
            /\ mdom' = FastRenderStep(m')
            /\ tasks' = Retire(t)
  /\ UNCHANGED <<page, track, demoVars, sessions, nextSid, txCount, stored>>

handleUnlockFail(t) ==
  /\ Fast
  /\ t \in Running /\ t.fn = "funlock"
  /\ t.pc \in {"getVault", "password", "denied", "address"}
  /\ m' = Merge(m, FastCatch(UnlockError(t.pc), "Error unlocking vault"))
  /\ mdom' = FastRenderStep(m')
  /\ tasks' = Retire(t)
  /\ UNCHANGED <<page, track, demoVars, sessions, nextSid, txCount, stored>>

----------------------------------------------------------------------------
(* Fast-vault page: handleImport *)

\* click on "Import Vault", up to `await isVaultFileEncrypted(file)`
handleImport(file, password) ==
  /\ Fast
  /\ "btn-submit-import" \in mdom
  /\ IF file = ""
       THEN /\ m' = Merge(m, [error |-> "Please select a .vult file"])
            /\ UNCHANGED tasks
       ELSE /\ CanSpawn
            /\ m' = Merge(m, FastStart("Importing vault..."))
            /\ tasks' = Spawn(Task("fimport", Web,
                                   IF password = "" THEN "encrypted?" ELSE "encrypted",
                                   FileVault, NullTx))
  /\ mdom' = FastRenderStep(m')
  /\ UNCHANGED <<page, track, demoVars, sessions, nextSid, txCount, stored>>

\* the file is encrypted and no password was entered: early return, finally
handleImportNeedsPassword(t) ==
  /\ Fast
  /\ t \in Running /\ t.fn = "fimport" /\ t.pc = "encrypted?"
  /\ m' = Merge(m, FastCatch("This vault is encrypted. Please enter the password.",
                             "Password required"))
  /\ mdom' = FastRenderStep(m')
  /\ tasks' = Retire(t)
  /\ UNCHANGED <<page, track, demoVars, sessions, nextSid, txCount, stored>>

\* importVault resolves: the SDK has stored the vault of the file
handleImportImported(t) ==
  /\ Fast
  /\ t \in Running /\ t.fn = "fimport" /\ t.pc \in {"encrypted?", "encrypted"}
  /\ stored' = [stored EXCEPT ![Web] = @ \cup {t.sid}]
  /\ FastOpened(t, [vault |-> t.sid, vaultId |-> t.sid])
  /\ UNCHANGED <<page, track, demoVars, sessions, nextSid, txCount>>

handleImportFinish(t) ==
  /\ Fast
  /\ t \in Running /\ t.fn = "fimport" /\ t.pc = "balance"
  /\ \E balance \in {NullBal, SomeBal}, vaults \in loadVaults :
       m' = Merge(Merge(m, [existingVaults |-> vaults]),
                  FastWallet("Vault imported!", balance))
  /\ mdom' = FastRenderStep(m')
  /\ tasks' = Retire(t)
  /\ UNCHANGED <<page, track, demoVars, sessions, nextSid, txCount, stored>>

\* isVaultFileEncrypted, importVault or getAddress rejects
handleImportFail(t) ==
  /\ Fast
  /\ t \in Running /\ t.fn = "fimport" /\ t.pc \in {"encrypted?", "encrypted", "address"}
  /\ m' = Merge(m, FastCatch("sdk error", "Error importing vault"))
  /\ mdom' = FastRenderStep(m')
  /\ tasks' = Retire(t)
  /\ UNCHANGED <<page, track, demoVars, sessions, nextSid, txCount, stored>>

----------------------------------------------------------------------------
(* Fast-vault page: handleSend and sendTransaction of sdk.ts *)

\* parseFloat(amount), in thousandths of a coin
parseFloatMilli(amount) ==
  CASE amount = "0.001" -> 1
    [] amount = "0"     -> 0
    [] amount = "-1"    -> -1000
    [] OTHER            -> 0

\* BigInt(Math.floor(amountFloat * 1e9)): the amount handed to prepareSendTx
amountBaseUnits(amount) == parseFloatMilli(amount) * 1000000

\* click on "Send SOL", up to `await vault.address(chain)` of sendTransaction
handleSend(destination, amount) ==
  /\ Fast
  /\ "btn-send" \in mdom
  /\ IF destination = "" \/ amount = "" \/ m.vault = NoVault
       THEN /\ m' = Merge(m, [error |-> "Please enter destination and amount"])
            /\ UNCHANGED <<tasks, txCount>>
       ELSE /\ CanSpawn
            /\ txCount < MaxTx
            /\ m' = Merge(Merge(m, FastStart("Preparing transaction...")), [txHash |-> 0])
            /\ txCount' = txCount + 1
            /\ tasks' = Spawn(Task("fsend", Web, "address", 0,
                          [ fromDevice |-> Web, toAddress |-> destination,
                            amount |-> amount, signingPayload |-> NullPayload ]))
  /\ mdom' = FastRenderStep(m')
  /\ UNCHANGED <<page, track, demoVars, sessions, nextSid, stored>>

\* the awaits of sendTransaction before vault.sign, in order
PipelineNext(pc) == IF pc = "address" THEN "prepare" ELSE "extract"

\* address() resolves and prepareSendTx is called with amountBaseUnits, or
\* prepareSendTx resolves and extractMessageHashes is called
SdkSendAdvance(t) ==
  /\ Fast
  /\ t \in Running /\ t.fn = "fsend" /\ t.pc \in {"address", "prepare"}
  /\ tasks' = Step(t, [t EXCEPT !.pc = PipelineNext(t.pc)])
  /\ UNCHANGED <<page, track, demoVars, sessions, nextSid, txCount, stored, m, mdom>>

\* extractMessageHashes resolves: vault.sign opens the signing session with
\* the server
SdkSendSign(t) ==
  /\ Fast
  /\ t \in Running /\ t.fn = "fsend" /\ t.pc = "extract"
  /\ nextSid <= LastSid
  /\ sessions' = [sessions EXCEPT ![nextSid] =
                    [ kind |-> "signing", phase |-> "computing",
                      joined |-> {Web, Server}, required |-> SignThreshold,
                      cancelled |-> FALSE, broadcast |-> FALSE ]]
  /\ nextSid' = nextSid + 1
  /\ tasks' = Step(t, [t EXCEPT !.pc = "sign", !.sid = nextSid])
  /\ UNCHANGED <<page, track, demoVars, txCount, stored, m, mdom>>

\* the signing session with the server finishes
FastSigningComplete(s) ==
  /\ Fast
  /\ s \in Sids
  /\ sessions[s].kind = "signing" /\ sessions[s].phase = "computing"
  /\ sessions' = [sessions EXCEPT ![s].phase = "done"]
  /\ UNCHANGED <<page, track, demoVars, tasks, nextSid, txCount, stored, m, mdom>>

\* vault.sign resolves with the signature: broadcastTx is called with it
SdkSendBroadcast(t) ==
  /\ Fast
  /\ t \in Running /\ t.fn = "fsend" /\ t.pc = "sign"
  /\ sessions[t.sid].phase = "done"
  /\ sessions' = [sessions EXCEPT ![t.sid].broadcast = TRUE]
  /\ tasks' = Step(t, [t EXCEPT !.pc = "broadcast"])
  /\ UNCHANGED <<page, track, demoVars, nextSid, txCount, stored, m, mdom>>

\* sendTransaction resolves with txHash; fetchBalance is awaited when the
\* address is still there
handleSendSent(t) ==
  /\ Fast
  /\ t \in Running /\ t.fn = "fsend" /\ t.pc = "broadcast"
  /\ IF m.solanaAddress # NoVault
       THEN /\ m' = Merge(m, [txHash |-> t.sid, status |-> "Transaction sent!"])
            /\ tasks' = Step(t, [t EXCEPT !.pc = "balance"])
            /\ mdom' = mdom
       ELSE /\ m' = Merge(m, [ txHash |-> t.sid, status |-> "Transaction sent!",
                               loading |-> FALSE ])
            /\ tasks' = Retire(t)
            /\ mdom' = FastRenderStep(m')
  /\ UNCHANGED <<page, track, demoVars, sessions, nextSid, txCount, stored>>

handleSendFinish(t) ==
  /\ Fast
  /\ t \in Running /\ t.fn = "fsend" /\ t.pc = "balance"
  /\ \E balance \in {NullBal, SomeBal} :
       m' = Merge(m, [balance |-> balance, loading |-> FALSE])
  /\ mdom' = FastRenderStep(m')
  /\ tasks' = Retire(t)
  /\ UNCHANGED <<page, track, demoVars, sessions, nextSid, txCount, stored>>

\* an await of sendTransaction rejects: nothing of the pipeline is kept
handleSendFail(t) ==
  /\ Fast
  /\ t \in Running /\ t.fn = "fsend"
  /\ \/ t.pc \in {"address", "prepare", "extract", "broadcast"}
     \/ t.pc = "sign" /\ sessions[t.sid].phase # "done"
  /\ m' = Merge(m, FastCatch("sdk error", "Transaction failed"))
  /\ mdom' = FastRenderStep(m')
  /\ sessions' = FailSession(t.sid)
  /\ tasks' = Retire(t)
  /\ UNCHANGED <<page, track, demoVars, nextSid, txCount, stored>>

----------------------------------------------------------------------------
(* Fast-vault page: specification *)

\* init(): render(), then initializeSDK runs to `await sdkInstance.initialize()`
InitFast(observed) ==
  /\ page = "fast"
  /\ track = observed
  /\ m = [InitialFastState EXCEPT !.sdkInstance = "constructed"]
  /\ mdom = {}
  /\ tasks = SetToBag({Task("init", Web, "initialize", 0, NullTx)})
  /\ sessions = [s \in Sids |-> NoSession]
  /\ nextSid = FirstSid
  /\ txCount = 0
  /\ stored \in {[d \in {Web} |-> {}], [d \in {Web} |-> {StoredVault}]}
  /\ activeDevice = DeviceA
  /\ dev = [d \in DeviceId |-> createInitialDeviceState]
  /\ sharedPayload = NullPayload
  /\ sharedPayloadType = NullStr
  /\ pendingTransaction = NullTx

FastAmounts == AmountsSeen \cup {""}

NextFast ==
  \/ \E t \in Running : FastInitInitialized(t)
  \/ \E t \in Running : FastInitDone(t)
  \/ \E t \in Running : FastInitFail(t)
  \/ FastGoTo("btn-create", "create")
  \/ FastGoTo("btn-import", "import")
  \/ FastBack
  \/ FastHome
  \/ \E t \in Running : FastHomeDone(t)
  \/ \E email \in {"", "a@b.c"}, password \in Passwords : handleCreate(email, password)
  \/ \E t \in Running : handleCreateDone(t)
  \/ \E t \in Running : handleCreateFail(t)
  \/ \E code \in {"", "123456"} : handleVerify(code)
  \/ \E t \in Running : handleVerifyVerified(t)
  \/ \E t \in Running : FastAddress(t)
  \/ \E t \in Running : handleVerifyFinish(t)
  \/ \E t \in Running : handleVerifyFail(t)
  \/ \E v \in {StoredVault, FileVault} \cup Sids : handleUnlock(v)
  \/ \E t \in Running, password \in Passwords : onPasswordRequired(t, password)
  \/ \E t \in Running : handleUnlockOpened(t)
  \/ \E t \in Running : handleUnlockFinish(t)
  \/ \E t \in Running : handleUnlockFail(t)
  \/ \E file \in {"", "backup.vult"}, password \in Passwords : handleImport(file, password)
  \/ \E t \in Running : handleImportNeedsPassword(t)
  \/ \E t \in Running : handleImportImported(t)
  \/ \E t \in Running : handleImportFinish(t)
  \/ \E t \in Running : handleImportFail(t)
  \/ \E a \in ToAddresses, n \in FastAmounts : handleSend(a, n)
  \/ \E t \in Running : SdkSendAdvance(t)
  \/ \E t \in Running : SdkSendSign(t)
  \/ \E s \in Sids : FastSigningComplete(s)
  \/ \E t \in Running : SdkSendBroadcast(t)
  \/ \E t \in Running : handleSendSent(t)
  \/ \E t \in Running : handleSendFinish(t)
  \/ \E t \in Running : handleSendFail(t)

NextFastBalance ==
  \/ NextFast
  \/ FastRefresh
  \/ \E t \in Running : FastRefreshDone(t)

\* the control state alone
SpecFast == InitFast({}) /\ [][NextFast]_vars

----------------------------------------------------------------------------
(* src/src/sdk.ts on its own: the module's exports under any caller *)

\* page = "sdk": no page is loaded, the exports of sdk.ts are called directly
SdkModule == page = "sdk"

\* the functions that call initializeSDK or getSDK, and a caller from outside
SdkCallers == {"init", "createFastVault", "listVaults"}

\* what a call handed to its caller: the instance sdkInstance refers to (the
\* one constructed last), in the state it was in at that moment, or an
\* exception
Handed(by, caller, instance) ==
  [ by |-> by, caller |-> caller, instance |-> instance,
    id |-> IF instance = "throws" THEN 0 ELSE m.constructed ]

\* initializeSDK testing and assigning sdkInstance only after initialize()
\* has resolved
initializeSDKAssignsLate(caller) ==
  /\ SdkModule
  /\ IF m.sdkInstance = "initialized"
       THEN /\ m' = [m EXCEPT !.returned = @ \cup {Handed("initializeSDK", caller, m.sdkInstance)}]
            /\ UNCHANGED tasks
       ELSE /\ CanSpawn
            /\ m' = [m EXCEPT !.sdkInstance = "constructed",
                              !.constructed = @ + 1, !.initializeCalls = @ + 1]
            /\ tasks' = Spawn(Task("initializeSDK", caller, "initialize", 0, NullTx))
  /\ UNCHANGED <<page, track, demoVars, sessions, nextSid, txCount, stored, mdom>>

\* initializeSDK(), up to `await sdkInstance.initialize()`: an existing
\* sdkInstance is returned as it is (lines 15-17), otherwise the instance is
\* constructed and assigned (line 23) before initialize() is awaited
initializeSDK(caller) ==
  /\ SdkModule
  /\ IF m.sdkInstance # "null"
       THEN /\ m' = [m EXCEPT !.returned = @ \cup {Handed("initializeSDK", caller, m.sdkInstance)}]
            /\ UNCHANGED tasks
       ELSE /\ CanSpawn
            /\ m' = [m EXCEPT !.sdkInstance = "constructed",
                              !.constructed = @ + 1, !.initializeCalls = @ + 1]
            /\ tasks' = Spawn(Task("initializeSDK", caller, "initialize", 0, NullTx))
  /\ UNCHANGED <<page, track, demoVars, sessions, nextSid, txCount, stored, mdom>>

\* initialize() resolves: line 44 returns the instance
SdkInitialized(t) ==
  /\ SdkModule
  /\ t \in Running /\ t.fn = "initializeSDK"
  /\ m' = [m EXCEPT !.sdkInstance = "initialized",
                    !.returned = @ \cup {Handed("initializeSDK", t.dev, "initialized")}]
  /\ tasks' = Retire(t)
  /\ UNCHANGED <<page, track, demoVars, sessions, nextSid, txCount, stored, mdom>>

\* initialize() rejects: the exception leaves initializeSDK, sdkInstance keeps
\* the instance that failed
SdkInitializeRejected(t) ==
  /\ SdkModule
  /\ t \in Running /\ t.fn = "initializeSDK"
  /\ m' = [m EXCEPT !.sdkInstance = "failed",
                    !.returned = @ \cup {Handed("initializeSDK", t.dev, "throws")}]
  /\ tasks' = Retire(t)
  /\ UNCHANGED <<page, track, demoVars, sessions, nextSid, txCount, stored, mdom>>

\* getSDK(): throws while sdkInstance is null, returns it otherwise
getSDK(caller) ==
  /\ SdkModule
  /\ m' = [m EXCEPT !.returned = @ \cup
             {Handed("getSDK", caller,
                     IF m.sdkInstance = "null" THEN "throws" ELSE m.sdkInstance)}]
  /\ UNCHANGED <<page, track, demoVars, tasks, sessions, nextSid, txCount, stored, mdom>>

\* the module as loaded: `let sdkInstance: Vultisig | null = null`
InitSdk ==
  /\ page = "sdk"
  /\ track = {}
  /\ m = [sdkInstance |-> "null", returned |-> {}, constructed |-> 0, initializeCalls |-> 0]
  /\ mdom = {}
  /\ tasks = EmptyBag
  /\ sessions = [s \in Sids |-> NoSession]
  /\ nextSid = FirstSid
  /\ txCount = 0
  /\ stored = [d \in {Web} |-> {}]
  /\ activeDevice = DeviceA
  /\ dev = [d \in DeviceId |-> createInitialDeviceState]
  /\ sharedPayload = NullPayload
  /\ sharedPayloadType = NullStr
  /\ pendingTransaction = NullTx

NextSdk ==
  \/ \E caller \in SdkCallers : initializeSDK(caller)
  \/ \E t \in Running : SdkInitialized(t)
  \/ \E t \in Running : SdkInitializeRejected(t)
  \/ \E caller \in SdkCallers : getSDK(caller)

SpecSdk == InitSdk /\ [][NextSdk]_vars

----------------------------------------------------------------------------
(* src/src/secure-wallet.ts, class PrefixedStorage, over one localStorage *)

\* page = "storage": the two storages the demo constructs (line 178), called
\* the way the SDK calls its Storage interface
StoragePage == page = "storage"

\* localStorage.getItem of a key that is not there
NoItem == "<null>"

\* keys as sequences of pieces, so that `${prefix}:${key}`, startsWith and
\* slice are computed; a key may itself look like the other storage's keys
StorageKeys == { <<"vault">>, <<"device-a", ":", "vault">>, <<"device-b", ":", "vault">> }

\* JavaScript values handed to set(), written as literals
JsValues == {"'a'", "null", "undefined", "NaN"}

\* JSON.stringify(value), as localStorage.setItem stores it (setItem turns its
\* argument into a string, the value undefined included)
JSONstringify(value) ==
  CASE value = "'a'"       -> "\"a\""
    [] value = "null"      -> "null"
    [] value = "NaN"       -> "null"
    [] value = "undefined" -> "undefined"

\* JSON.parse(text): a SyntaxError for a text that is not JSON
JSONparse(text) ==
  CASE text = "\"a\"" -> "'a'"
    [] text = "null"  -> "null"
    [] OTHER          -> "SyntaxError"

\* `${this.prefix}:${key}`
FullKey(prefix, key) == <<prefix, ":">> \o key

AllFullKeys == {FullKey(p, k) : p \in DeviceId, k \in StorageKeys}

\* key?.startsWith(`${this.prefix}:`)
StartsWith(full, prefix) ==
  Len(full) >= 2 /\ SubSeq(full, 1, 2) = <<prefix, ":">>

\* key.slice(this.prefix.length + 1)
Slice(full) == SubSeq(full, 3, Len(full))

\* the keys localStorage.key(i) runs over
PresentKeys(ls) == {f \in DOMAIN ls : ls[f] # NoItem}

\* what get(key) of the storage with this prefix resolves with
Got(ls, prefix, key) ==
  LET value == ls[FullKey(prefix, key)]
  IN  IF value # NoItem THEN JSONparse(value) ELSE "null"

\* what a call resolves with: nothing, a value (or an exception), or keys
Void          == [value |-> "void", keys |-> {}]
Value(value)  == [value |-> value, keys |-> {}]
KeyList(keys) == [value |-> "keys", keys |-> keys]

StorageCall(ls, result) ==
  /\ m' = [localStorage |-> ls, result |-> result]
  /\ UNCHANGED <<page, track, demoVars, tasks, sessions, nextSid, txCount, stored, mdom>>

get(prefix, key) ==
  /\ StoragePage
  /\ StorageCall(m.localStorage, Value(Got(m.localStorage, prefix, key)))

\* set() storing under the bare key, without the prefix
setUnprefixed(prefix, key, value) ==
  /\ StoragePage
  /\ StorageCall([m.localStorage EXCEPT ![FullKey(DeviceA, key)] = JSONstringify(value)],
                 Void)

set(prefix, key, value) ==
  /\ StoragePage
  /\ StorageCall([m.localStorage EXCEPT ![FullKey(prefix, key)] = JSONstringify(value)],
                 Void)

remove(prefix, key) ==
  /\ StoragePage
  /\ StorageCall([m.localStorage EXCEPT ![FullKey(prefix, key)] = NoItem], Void)

clear(prefix) ==
  /\ StoragePage
  /\ LET keysToDelete == {f \in PresentKeys(m.localStorage) : StartsWith(f, prefix)}
     IN  StorageCall([f \in DOMAIN m.localStorage |->
                        IF f \in keysToDelete THEN NoItem ELSE m.localStorage[f]],
                     Void)

list(prefix) ==
  /\ StoragePage
  /\ StorageCall(m.localStorage,
                 KeyList({Slice(f) : f \in {g \in PresentKeys(m.localStorage) :
                                                StartsWith(g, prefix)}}))

\* an empty localStorage
InitStorage ==
  /\ page = "storage"
  /\ track = {}
  /\ m = [localStorage |-> [f \in AllFullKeys |-> NoItem], result |-> Void]
  /\ mdom = {}
  /\ tasks = EmptyBag
  /\ sessions = [s \in Sids |-> NoSession]
  /\ nextSid = FirstSid
  /\ txCount = 0
  /\ stored = [d \in {Web} |-> {}]
  /\ activeDevice = DeviceA
  /\ dev = [d \in DeviceId |-> createInitialDeviceState]
  /\ sharedPayload = NullPayload
  /\ sharedPayloadType = NullStr
  /\ pendingTransaction = NullTx

NextStorage ==
  \/ \E p \in DeviceId, k \in StorageKeys : get(p, k)
  \/ \E p \in DeviceId, k \in StorageKeys, v \in JsValues : set(p, k, v)
  \/ \E p \in DeviceId, k \in StorageKeys : remove(p, k)
  \/ \E p \in DeviceId : clear(p)
  \/ \E p \in DeviceId : list(p)

SpecStorage == InitStorage /\ [][NextStorage]_vars

----------------------------------------------------------------------------
(* All pages: each behaviour is one page load *)

\* the display fields the properties below read
Shown == {"devicesJoined", "devicesRequired", "qrPayload", "txHash"}

\* the three pages, observing the same display fields
InitPages(observed) == InitDemo(observed) \/ InitMulti(observed) \/ InitFast(observed)

Init == InitPages(Shown)

Next == NextDemo \/ NextMulti \/ NextFast

Spec == Init /\ [][Next]_vars

\* the control state and the error messages
SpecErrors == InitPages({"error"}) /\ [][Next]_vars

\* the control state and the amounts typed into the send forms
SpecAmounts == InitPages({"amount"}) /\ [][Next]_vars

----------------------------------------------------------------------------
(* Properties *)

\* a ceremony the SDK is still running
Live(s) == sessions[s].phase \in {"awaiting", "computing"}

\* the vault.sign calls of sendTransaction / testSigningQR that have not settled
SignCalls == {t \in Running : /\ t.fn \in {"send", "test"}
                              /\ t.pc \in {"sdk0", "sdk1"}
                              /\ Live(t.sid)}

C1_Replaced ==
  /\ pendingTransaction # NullTx
  /\ pendingTransaction' # NullTx
  /\ pendingTransaction' # pendingTransaction

\* C1: at most one signing ceremony is active per vault.  In the two-device
\* demo a pending transaction is never replaced by another request while it
\* exists, and in the multi-device page at most one vault.sign call is
\* unsettled at any time.
C1_OneCeremonyPerVault ==
  /\ [](Multi => Cardinality(SignCalls) <= 1)
  /\ [][Demo => ~C1_Replaced]_vars

C2_NoArtifact ==
  \A s \in Sids :
    sessions[s].phase = "failed" =>
      /\ \A d \in DeviceId : dev[d].vault # s /\ dev[d].vaultId # s
      /\ ~sessions[s].broadcast
      /\ Multi => m.txHash # s

C2_FailedHandler ==
  \A t \in Running :
    (createSecureVaultFail(t) \/ joinSecureVaultFail(t)) =>
      /\ dev'[t.dev].vault = dev[t.dev].vault
      /\ dev'[t.dev].vaultId = dev[t.dev].vaultId
      /\ t.pc # "dead" => dev'[t.dev].vault # t.sid

C2_StillNull ==
  \A t \in Running :
    (createSecureVaultFail(t) \/ joinSecureVaultFail(t)) =>
      dev'[t.dev].vault = NoVault /\ dev'[t.dev].vaultId = NoVault

C3_CancelledLeavesNothing ==
  \A s \in Sids :
    sessions[s].cancelled =>
      /\ ~sessions[s].broadcast
      /\ Multi => (m.vault # s /\ m.txHash # s)

\* C4: both devices take part in a signing.  Every approval in progress or
\* finished was started by the device other than the one that requested the
\* transaction it signs.
C4_BothDevicesSign ==
  \A t \in Running :
    t.fn \in {"approve", "timeout"} =>
      /\ t.tx # NullTx
      /\ t.dev = OtherDevice(t.tx.fromDevice)

\* C4 witness: a transaction has reached the signed-and-sent outcome
C4_Signed ==
  \E t \in Running :
    /\ t.fn = "timeout"
    /\ pendingTransaction = NullTx
    /\ \A d \in DeviceId : ~dev[d].loading

AllJoined(s) ==
  /\ sessions[s].kind = "keygen"
  /\ Cardinality(sessions[s].joined) = sessions[s].required

C6_Bounded ==
  /\ \A d \in DeviceId : dev[d].devicesJoined <= dev[d].devicesRequired
  /\ Multi => m.devicesJoined <= m.devicesRequired

C6_JoinAttaches ==
  joinSecureVault /\ sessions' # sessions =>
    /\ sharedPayload.id \in Sids
    /\ sessions[sharedPayload.id].kind = "keygen"
    /\ sessions[sharedPayload.id].phase = "awaiting"
    /\ ~sessions[sharedPayload.id].cancelled
    /\ Cardinality(sessions[sharedPayload.id].joined)
         < sessions[sharedPayload.id].required

C7_SigningEnds ==
  \/ rejectTransaction
  \/ \E t \in Running : approveTransactionFinish(t)
  \/ \E t \in Running : initiateTransactionFail(t)

\* C7: the step that ends a signing (approved, rejected or failed) leaves
\* pendingTransaction, sharedPayload and sharedPayloadType null, and every
\* idle device that holds a vault is offered the send form again.
C7_SessionGoneThenNewAccepted ==
  [][C7_SigningEnds =>
       /\ pendingTransaction' = NullTx
       /\ sharedPayload' = NullPayload
       /\ sharedPayloadType' = NullStr
       /\ \A d \in DeviceId :
            dev'[d].vault # NoVault /\ ~dev'[d].loading
              => "btn-send" \in renderDevicePanel(d)']_vars

\* C7 witness: the first request was approved and a second one is pending
C7_SecondRequestPending ==
  /\ pendingTransaction # NullTx
  /\ \E t \in Running :
       /\ t.fn = "timeout"
       /\ t.tx.signingPayload # pendingTransaction.signingPayload

\* the handler that started the ceremony has returned
Returned(s) == ~\E t \in Running : t.sid = s /\ t.fn \in {"create", "send", "test", "qr"}

Ended(s) ==
  \/ sessions[s].cancelled
  \/ sessions[s].phase \in {"done", "failed"} /\ Returned(s)

\* C8: the descriptor of an ended session is destroyed.  Once a ceremony is
\* cancelled, or has completed or failed and its handler has returned,
\* neither sharedPayload (demo) nor qrPayload (multi-device page) names it.
C8_DescriptorDestroyed ==
  \A s \in Sids :
    Ended(s) =>
      /\ sharedPayload # QrPayload(s)
      /\ Multi => m.qrPayload.id # s

PhaseLine(pc) ==
  CASE pc = "joining"   -> "Joining MPC signing session..."
    [] pc = "computing" -> "Computing partial signature..."
    [] OTHER            -> "Combining signatures..."

PhaseBefore(pc) == IF pc = "combining" THEN "computing" ELSE "joining"

\* the tasks a step has added to, and taken from, the bag of running tasks
Started == {u \in BagToSet(tasks') : CopiesIn(u, tasks') > CopiesIn(u, tasks)}

Left == {t \in BagToSet(tasks) : CopiesIn(t, tasks) > CopiesIn(t, tasks')}

\* an approval enters a phase only from the phase before it, and writes the
\* line of the phase it enters
C10_Enters ==
  \A u \in Started :
    /\ u.fn = "approve" =>
         /\ dev'[u.dev].status = PhaseLine(u.pc)
         /\ u.pc # "joining" => [u EXCEPT !.pc = PhaseBefore(u.pc)] \in Left
    /\ u.fn = "timeout" =>
         /\ dev'[u.dev].status = "Transaction signed & sent!"
         /\ Task("approve", u.dev, "combining", 0, u.tx) \in Left

\* an approval leaves a phase only for the next one
C10_Leaves ==
  \A t \in Left :
    t.fn = "approve" =>
      \E u \in Started :
        \/ u.fn = "approve" /\ t = [u EXCEPT !.pc = PhaseBefore(u.pc)] /\ u.pc # "joining"
        \/ u.fn = "timeout" /\ t = Task("approve", u.dev, "combining", 0, u.tx)

OnlyDeviceError(d, message) ==
  /\ dev' = [dev EXCEPT ![d].error = message]
  /\ UNCHANGED <<page, track, activeDevice, sharedPayload, sharedPayloadType,
                 pendingTransaction, tasks, sessions, nextSid, txCount, stored, m>>

\* the step changes nothing of the page's state but its error
OnlyPageError(message) ==
  /\ m' = [m EXCEPT !.error = message]
  /\ UNCHANGED <<page, track, demoVars, tasks, sessions, nextSid, txCount, stored>>

\* C11: a signing request with an empty destination is rejected before
\* anything else happens.  On each of the three pages the step of the send
\* handler that is given an empty destination starts no handler and no SDK
\* call, opens no session, creates no pending transaction or shared payload,
\* leaves loading as it was, and changes the error message only (the page is
\* redrawn from that state).
C11_EmptyDestinationRejected ==
  [][ /\ \A d \in DeviceId, n \in AmountsSeen :
           initiateTransaction(d, "", n)
             => OnlyDeviceError(d, "Please enter destination address")
      /\ \A n \in AmountsSeen :
           sendTransaction("", n) => OnlyPageError("Please enter a destination address")
      /\ \A n \in FastAmounts :
           handleSend("", n) => OnlyPageError("Please enter destination and amount")
    ]_vars

\* C11 witness: a request without destination has been turned down on the
\* demo, and nothing is pending, loading or was ever prepared
C11_TurnedDown ==
  \E d \in DeviceId :
    /\ dev[d].error = "Please enter destination address"
    /\ ~dev[d].loading /\ dev[d].vault # NoVault
    /\ pendingTransaction = NullTx /\ sharedPayload = NullPayload
    /\ txCount = 0 /\ tasks = EmptyBag


\* C12: an amount that is zero or negative never gets as far as
\* prepareSendTx.  No sendTransaction (multi-device page, sdk.ts) in flight
\* has called prepareSendTx, or gone beyond it, with an amount <= 0 in base
\* units.
C12_AmountValidated ==
  \A t \in Running :
    t.fn \in {"send", "fsend"} /\ t.pc # "address"
      => amountBaseUnits(t.tx.amount) > 0


\* the step on which a handler learns that broadcastTx has rejected
BroadcastRejected(t) ==
  /\ t.pc = "broadcast"
  /\ sendTransactionFail(t) \/ handleSendFail(t)

\* C13: a rejected broadcast leaves the signature available for a retry.
\* When broadcastTx rejects after vault.sign has returned, the signature of
\* that signing session is still held afterwards (by a handler that can hand
\* it to broadcastTx again), so that no new signing session is needed.
C13_SignatureKeptForRetry ==
  [][\A t \in Running :
       BroadcastRejected(t)
         => \E u \in BagToSet(tasks') :
              u.sid = t.sid /\ u.tx = t.tx /\ u.pc \in {"sign", "broadcast"}]_vars


Aborted(s) == s \in Sids /\ (sessions[s].cancelled \/ sessions[s].phase = "failed")

\* a later keygen attempt is under way
Retried(t) ==
  \E u \in Running : u.fn = "create" /\ u.sid > t.sid /\ u.pc \in {"sdk0", "sdk1"}

\* a callback, or the result, of the createSecureVault call of handler t
KeygenReport(t) ==
  \/ MultiOnProgress(t) \/ MultiOnQRCodeReady(t) \/ MultiQRCodeGenerated(t)
  \/ MultiOnDeviceJoined(t)
  \/ MultiCreateResolve(t) \/ MultiCreateAddress(t) \/ MultiCreateFinish(t)
  \/ MultiCreateFail(t)
  \/ onProgress(t) \/ onQRCodeReady(t) \/ onDeviceJoined(t)
  \/ KeygenResolve(t) \/ createSecureVaultFinish(t) \/ createSecureVaultFail(t)

C15_StartsFresh ==
  /\ createSecureVault
       => /\ dev'[DeviceA].devicesJoined = 0
          /\ dev'[DeviceA].qrPayload = NullPayload
          /\ sharedPayload' = NullPayload
  /\ \A n \in DeviceCounts :
       MultiCreateSecureVault(n)
         => m'.devicesJoined = 0 /\ m'.qrPayload = NullPayload

C15_OldAttemptSilent ==
  \A t \in Running :
    Aborted(t.sid) /\ Retried(t) /\ KeygenReport(t)
      => UNCHANGED <<m, dev, sharedPayload, sharedPayloadType>>

\* C15: a retried keygen starts from fresh session state.  The step that
\* starts a keygen attempt leaves the joined count 0 and no descriptor (page
\* or shared) behind, and once a later attempt is under way no callback and
\* no result of an attempt that was cancelled or has failed changes the state.
C15_RetryStartsFresh == [][C15_StartsFresh /\ C15_OldAttemptSilent]_vars


\* the vault of device d was made by a keygen the device took part in and is
\* no longer in the device's storage: deleteVault has succeeded there
DeletedOn(d) ==
  \E s \in Sids : sessions[s].kind = "keygen" /\ sessions[s].phase = "done"
                  /\ d \in sessions[s].joined /\ s \notin stored[d]

\* C16: deleteVault is idempotent.  A call of deleteVault for a device (or
\* for the multi-device page) that holds no vault changes nothing at all:
\* vault, vaultId, solanaAddress and balance stay null, no error is written,
\* and no handler is left waiting on an SDK delete; no SDK delete is ever
\* issued for a null vault.
C16_DeleteVaultIdempotent ==
  [][ /\ \A d \in DeviceId :
           deleteVault(d) /\ dev[d].vault = NoVault => UNCHANGED vars
      /\ MultiDeleteVault /\ m.vault = NoVault => UNCHANGED vars
      /\ \A t \in BagToSet(tasks') : t.fn = "delete" => t.sid # NoVault ]_vars

\* a device whose delete has succeeded and finished, where a second call of
\* deleteVault can be made
C16_DeletedAndCalledAgain ==
  \/ /\ Demo
     /\ \E d \in DeviceId :
          /\ DeletedOn(d) /\ dev[d].sdk
          /\ dev[d].vault = NoVault /\ dev[d].vaultId = NoVault
          /\ dev[d].solanaAddress = NoVault
          /\ \A t \in Running : ~(t.fn = "delete" /\ t.dev = d)
          /\ ENABLED deleteVault(d)
  \/ /\ Multi
     /\ DeletedOn(Web) /\ m.sdk /\ m.vault = NoVault /\ m.vaultId = NoVault
     /\ \A t \in Running : t.fn # "delete"
     /\ ENABLED MultiDeleteVault


\* a signing request is published and nobody has approved it yet
AwaitingApproval ==
  /\ Demo /\ pendingTransaction # NullTx
  /\ \A t \in Running : t.fn # "approve"

\* the holders of the vault: the participants of the signing ceremony
Participant(d) == dev[d].vault # NoVault

C17_EveryoneHasCancel ==
  AwaitingApproval
    => \A d \in DeviceId :
         Participant(d) /\ ~dev[d].loading => "btn-reject" \in renderDevicePanel(d)

C17_CancelClears ==
  AwaitingApproval /\ rejectTransaction
    => /\ pendingTransaction' = NullTx
       /\ sharedPayload' = NullPayload /\ sharedPayloadType' = NullStr

\* C17: while a signing request awaits approval, every participant, the
\* device that made the request included, is offered the cancellation; a
\* cancellation made then leaves no pending request and no descriptor behind.
C17_AnyParticipantCancels == [](C17_EveryoneHasCancel) /\ [][C17_CancelClears]_vars


\* handler t hands a signature to broadcastTx, or has reported its
\* transaction as signed
Released(t) ==
  \/ t.fn \in {"send", "fsend"} /\ t.pc = "broadcast"
  \/ t.fn = "timeout"

\* the signature t holds is the result of a signing ceremony that completed
SignatureBehind(t) ==
  /\ t.sid \in Sids
  /\ sessions[t.sid].kind = "signing" /\ sessions[t.sid].phase = "done"

\* C19: every released signature has been validated against the request.  No
\* page calls a verification, so what is checked is the least a validated
\* signature requires: every transaction handed to broadcastTx or reported as
\* signed carries the signature of a completed signing ceremony.
C19_ReleasedSignatureValidated ==
  \A t \in Running : Released(t) => SignatureBehind(t)


\* device B has joined the keygen session s that device A started
BothJoined(s) ==
  /\ sessions[s].kind = "keygen" /\ sessions[s].required = 2
  /\ sessions[s].joined = DeviceId
  /\ \E t \in Running : t.fn = "create" /\ t.sid = s
  /\ \E t \in Running : t.fn = "join" /\ t.sid = s

\* both operations have returned, each device holds the vault s out of its
\* own storage, and the shared descriptor is gone
KeygenSettled(s) ==
  /\ \A t \in Running : ~(t.fn \in {"create", "join"} /\ t.sid = s)
  /\ \A d \in DeviceId :
       /\ dev[d].vault = s /\ dev[d].vaultId = s
       /\ s \in stored[d]
       /\ ~dev[d].loading
  /\ sharedPayload = NullPayload /\ sharedPayloadType = NullStr

\* C20: two-party keygen scenario.  Once device B has joined the session that
\* device A started, and no call of the keygen rejects, both handlers
\* eventually return with each device holding the vault of that session in
\* its own storage and the shared keygen descriptor cleared.
C20_KeygenCompletes ==
  \A s \in Sids : BothJoined(s) ~> KeygenSettled(s)

\* the scenario has run to its end
C20_Settled ==
  \E s \in Sids : sessions[s].phase = "done" /\ KeygenSettled(s)


\* C22: every SDK instance handed out by getSDK or initializeSDK has completed
\* initialize(); a call that cannot hand out such an instance throws.
C22_HandedOutInitialized ==
  SdkModule =>
    \A r \in m.returned : r.instance \in {"initialized", "throws"}


\* the stage of the send pipeline a handler is waiting in
SendStage(pc) ==
  CASE pc = "address"                  -> 0
    [] pc = "prepare"                  -> 1
    [] pc = "extract"                  -> 2
    [] pc \in {"sdk0", "sdk1", "sign"} -> 3
    [] pc = "broadcast"                -> 4
    [] OTHER                           -> 5

IsSend(t) == t.fn \in {"send", "fsend"}

C23_StagesInOrder ==
  \A t \in Left : \A u \in Started :
    IsSend(t) /\ u.fn = t.fn /\ u.tx = t.tx =>
      LET a == SendStage(t.pc)
          b == SendStage(u.pc)
      IN  /\ b >= a
          /\ b \in {1, 2} => b = a + 1
          /\ b = 3 /\ a # 3 => a \in {1, 2}
          /\ b = 4 => /\ a = 3 /\ u.sid = t.sid
                      /\ sessions[t.sid].kind = "signing"
                      /\ sessions[t.sid].phase = "done"
          /\ b = 5 => a = 4

C23_BroadcastAfterSign ==
  \A s \in Sids :
    sessions'[s].broadcast /\ ~sessions[s].broadcast =>
      /\ sessions[s].kind = "signing" /\ sessions[s].phase = "done"
      /\ \E u \in Started : IsSend(u) /\ u.pc = "broadcast" /\ u.sid = s

C23_HashAfterBroadcast ==
  (Multi \/ Fast) /\ m'.txHash # m.txHash /\ m'.txHash # 0 =>
    \E t \in Left :
      /\ IsSend(t) /\ t.pc = "broadcast"
      /\ m'.txHash = t.sid /\ sessions[t.sid].broadcast

\* C23: the send pipeline runs in the order prepareSendTx ->
\* extractMessageHashes -> sign -> broadcastTx.  A send handler only moves
\* forward through the stages; broadcastTx is called only by a handler whose
\* sign has resolved, for the session of that same request; a txHash is
\* written only by the handler whose broadcastTx resolved; a handler that
\* leaves on a failure therefore broadcasts nothing and writes no txHash.
C23_PipelineInOrder ==
  [][C23_StagesInOrder /\ C23_BroadcastAfterSign /\ C23_HashAfterBroadcast]_vars

\* a send has run through the pipeline and its hash is recorded
C23_HashRecorded ==
  /\ Multi \/ Fast
  /\ m.txHash \in Sids
  /\ sessions[m.txHash].kind = "signing" /\ sessions[m.txHash].broadcast


\* the page enters the wallet step at the end of a handleVerify
C24_WalletThroughVerify ==
  \A t \in Left :
    t.fn = "fverify" /\ m.step # "wallet" /\ m'.step = "wallet" =>
      /\ sessions[t.sid].kind = "fast" /\ sessions[t.sid].phase = "verified"
      /\ m'.vault = t.sid /\ m'.vaultId = t.sid

C24_FailedCreateStays ==
  \A t \in Running :
    handleCreateFail(t) =>
      m'.step = m.step /\ m'.vault = m.vault /\ m'.vaultId = m.vaultId

C24_FailedVerifyStays ==
  \A t \in Running :
    handleVerifyFail(t) => m'.step = "verify" /\ m'.vault = NoVault

\* C24: in the create flow the wallet step is reached only through e-mail
\* verification.  handleVerify moves the page to 'wallet' only with the vault
\* of the id createFastVault returned, after verifyVault resolved for it; a
\* failed creation leaves step, vault and vaultId as they were; a failed
\* verification leaves the page on 'verify' with vault = null.
C24_WalletOnlyVerified ==
  [][C24_WalletThroughVerify /\ C24_FailedCreateStays /\ C24_FailedVerifyStays]_vars


BroadcastFlags == {s \in Sids : sessions[s].broadcast}

\* C25: testSigningQR never broadcasts.  The click resets txHash to null, and
\* no step of a running testSigningQR, whether its signing succeeds or fails,
\* hands a signature to broadcastTx or writes txHash.
C25_TestNeverBroadcasts ==
  [][ /\ testSigningQR => m'.txHash = 0 /\ BroadcastFlags' = BroadcastFlags
      /\ \A t \in Left :
           t.fn = "test" =>
             /\ m'.txHash = m.txHash
             /\ BroadcastFlags' = BroadcastFlags
             /\ \A u \in Started : u.pc # "broadcast" ]_vars

\* a test signing has succeeded and returned: its session is done, nothing
\* was broadcast, and the page still shows the signing step
C25_TestSigned ==
  /\ Multi
  /\ m.step = "signing" /\ ~m.loading /\ m.txHash = 0
  /\ tasks = EmptyBag
  /\ \E s \in Sids : sessions[s].kind = "signing" /\ sessions[s].phase = "done"
                     /\ ~sessions[s].broadcast


\* the localStorage keys of the storage with this prefix
OwnKeys(prefix) == {FullKey(prefix, k) : k \in StorageKeys}

\* a call on the storage with this prefix
CallOn(prefix) ==
  \/ \E k \in StorageKeys : get(prefix, k) \/ remove(prefix, k)
  \/ \E k \in StorageKeys, v \in JsValues : set(prefix, k, v)
  \/ clear(prefix)
  \/ list(prefix)

\* C26: PrefixedStorage isolates the two simulated devices.  A call on one
\* storage changes and deletes no key of the other and returns nothing that
\* depends on them; clear() removes all and only the keys of its own prefix;
\* list() returns exactly the keys set under its own prefix, prefix stripped.
C26_StoragesIsolated ==
  [][ \A p \in DeviceId :
        /\ CallOn(p) =>
             \A f \in AllFullKeys \ OwnKeys(p) : m'.localStorage[f] = m.localStorage[f]
        /\ \A k \in StorageKeys :
             get(p, k) =>
               m'.result = Value(IF m.localStorage[FullKey(p, k)] = NoItem
                                   THEN "null"
                                   ELSE JSONparse(m.localStorage[FullKey(p, k)]))
        /\ clear(p) => \A f \in OwnKeys(p) : m'.localStorage[f] = NoItem
        /\ list(p) =>
             m'.result = KeyList({k \in StorageKeys :
                                    m.localStorage[FullKey(p, k)] # NoItem}) ]_vars

\* both storages hold keys, device A's under a name that looks like a key of
\* device B, and list() of device A has just returned it
C26_BothHoldKeys ==
  /\ StoragePage
  /\ m.localStorage[FullKey(DeviceA, <<"device-b", ":", "vault">>)] # NoItem
  /\ m.localStorage[FullKey(DeviceB, <<"vault">>)] # NoItem
  /\ m.result = KeyList({<<"device-b", ":", "vault">>})

C27_Step ==
  \A p \in DeviceId, k \in StorageKeys :
    /\ \A v \in JsValues : set(p, k, v) => Got(m'.localStorage, p, k) = v
    /\ remove(p, k) => Got(m'.localStorage, p, k) = "null"
    /\ clear(p) => Got(m'.localStorage, p, k) = "null"
    /\ Got(m'.localStorage, p, k) # Got(m.localStorage, p, k) =>
         \/ \E v \in JsValues : set(p, k, v)
         \/ remove(p, k)
         \/ clear(p)

\* C27: PrefixedStorage round trip.  get of a key never set returns null;
\* after set(k, v) a get(k) returns v, after remove(k) or clear() it returns
\* null, and nothing but a set(k, _), remove(k) or clear() of the same
\* storage changes what get(k) returns.
C27_RoundTrip ==
  /\ StoragePage =>
       \A p \in DeviceId, k \in StorageKeys : Got(m.localStorage, p, k) = "null"
  /\ [][C27_Step]_vars

\* C28: initializeSDK is a singleton initializer.  Over any calls of
\* initializeSDK and getSDK, overlapping ones included, at most one Vultisig
\* instance is constructed, initialize() is called at most once, and every
\* call that hands out an instance hands out that one.
C28_Singleton ==
  SdkModule =>
    /\ m.constructed <= 1
    /\ m.initializeCalls <= 1
    /\ \A r \in m.returned : r.instance # "throws" => r.id = 1

\* a second initializeSDK came back while the first was still waiting for
\* initialize(), and the first has resolved since
C28_OverlappingCalls ==
  /\ SdkModule
  /\ \E r, q \in m.returned :
       /\ r.by = "initializeSDK" /\ q.by = "initializeSDK"
       /\ r.caller # q.caller
       /\ r.instance = "constructed" /\ q.instance = "initialized"
       /\ r.id = q.id


\* the running handleCreate, handleVerify, handleUnlock, handleImport and
\* handleSend calls
FastOperations ==
  BagCardinality([t \in {u \in Running : u.fn \in {"fcreate", "fverify", "funlock",
                                                     "fimport", "fsend"}}
                    |-> CopiesIn(t, tasks)])

\* C29: on the fast-vault page at most one of handleCreate, handleVerify,
\* handleUnlock, handleImport and handleSend is in flight, and while one is,
\* state.loading is set, whatever navigation happens in between.
C29_OneOperation ==
  Fast => /\ FastOperations <= 1
          /\ FastOperations = 1 => m.loading

\* a creation is still in flight after the user has gone Back and on to the
\* import form
C29_BusyElsewhere ==
  /\ Fast
  /\ m.step = "import" /\ m.loading
  /\ \E t \in Running : t.fn = "fcreate"


\* a vault.sign call of sendTransaction or testSigningQR has not settled
SignPending == \E t \in Running : CeremonyTask(t) /\ t.fn \in {"send", "test"}

\* a sendTransaction or testSigningQR call has not finished
SigningOperation == \E t \in Running : t.fn \in {"send", "test"}

\* a createSecureVault, sendTransaction or testSigningQR call has not finished
BusyOperation == \E t \in Running : t.fn \in {"create", "send", "test"}

C30_SigningFlagCovers == SignPending => m.signingInProgress

C30_SigningFlagReleased == m.signingInProgress => SigningOperation

C30_LoadingTracks == m.loading <=> BusyOperation

\* C30: on the multi-device page signingInProgress is set while a vault.sign
\* call of sendTransaction or testSigningQR is pending and only while the
\* operation that made it is running, and loading is set exactly while a
\* createSecureVault, sendTransaction or testSigningQR call is running.
C30_BusyFlagsTrack ==
  Multi => /\ C30_SigningFlagCovers
           /\ C30_SigningFlagReleased
           /\ C30_LoadingTracks


\* C31: on the multi-device page, whenever step = 'wallet' the vault, vaultId
\* and solanaAddress are non-null.
C31_WalletHasVault ==
  Multi /\ m.step = "wallet" =>
    /\ m.vault # NoVault
    /\ m.vaultId # NoVault
    /\ m.solanaAddress # NoVault


C32_PendingIffSigning == pendingTransaction # NullTx <=> sharedPayloadType = "signing"

C32_PayloadIsRequest ==
  pendingTransaction # NullTx => sharedPayload = pendingTransaction.signingPayload

C32_RequesterHasVault ==
  pendingTransaction # NullTx => dev[pendingTransaction.fromDevice].vault # NoVault

\* C32: in the two-device demo pendingTransaction is non-null exactly when
\* sharedPayloadType = 'signing', and then sharedPayload is the request's
\* signingPayload and the requesting device holds a vault.
C32_SharedSigningConsistent ==
  Demo => /\ C32_PendingIffSigning
          /\ C32_PayloadIsRequest
          /\ C32_RequesterHasVault


\* approveTransaction finishes: its 1000 ms timer fired and the status reset
\* is scheduled
ApprovalFinishing(t) ==
  /\ t \in Left /\ t.fn = "approve" /\ t.pc = "combining"
  /\ \E u \in Started : u.fn = "timeout"

\* C33: when approveTransaction finishes, the pendingTransaction it clears is
\* the request it captured when it started.
C33_ClearsCapturedRequest ==
  [][\A t \in Running : ApprovalFinishing(t) => pendingTransaction = t.tx]_vars


\* C34: in the two-device demo a device's status is 'Vault ready' only while
\* that device holds a vault.
C34_VaultReadyHasVault ==
  Demo => \A d \in DeviceId : dev[d].status = "Vault ready" => dev[d].vault # NoVault


\* vault, vaultId, solanaAddress, sdk and initialized of a device
KeyMaterial(dv, d) ==
  <<dv[d].vault, dv[d].vaultId, dv[d].solanaAddress, dv[d].sdk, dv[d].initialized>>

\* the devices whose handler takes this step: the device of the call that
\* continues or starts, else the device of the panel that was clicked
HandlerDevices ==
  IF Left \cup Started # {} THEN {t.dev : t \in Left \cup Started} ELSE {activeDevice}

C35_OnlyOwnKeyMaterial ==
  \A d \in DeviceId :
    KeyMaterial(dev', d) # KeyMaterial(dev, d) => HandlerDevices = {d}

\* update objects the handlers pass to setDeviceState
DeviceUpdates ==
  { initializeDeviceCatch, createSecureVaultStart, createSecureVaultDone(FirstSid, SomeBal),
    joinSecureVaultCatch, initiateTransactionStart, deleteVaultDone }

C35_SetDeviceStateFrame ==
  \A id \in DeviceId, updates \in DeviceUpdates :
    LET after == setDeviceState(dev, id, updates) IN
    /\ after[OtherDevice(id)] = dev[OtherDevice(id)]
    /\ \A f \in DOMAIN dev[id] \ DOMAIN updates : after[id][f] = dev[id][f]

\* C35: no handler run for one device changes the vault, vaultId,
\* solanaAddress, sdk or initialized fields of the other device, and
\* setDeviceState(X, updates) leaves every field not listed in updates
\* unchanged.
C35_KeyMaterialFrame ==
  [][Demo => C35_OnlyOwnKeyMaterial /\ C35_SetDeviceStateFrame]_vars

\* Device A's vault has been deleted while Device B still holds its own
C35_DeletedOnOneDevice ==
  /\ Demo
  /\ dev[DeviceA].vault = NoVault /\ dev[DeviceA].status = "Vault deleted"
  /\ dev[DeviceB].vault # NoVault /\ dev[DeviceB].solanaAddress # NoVault

====
